---- MODULE Spec2Model ----
(***************************************************************************)
(* Sentilytics: the TTL cache over cached_index_data and the deferred      *)
(* evaluation ledger over prediction_logs (app/services/cache_service.py). *)
(*                                                                         *)
(* Time is a naive datetime counted in minutes.  A nullable column holds   *)
(* <<>> (NULL) or <<v>>.  A "YYYY-MM-DD" string is the one-token sequence  *)
(* <<day>>, a "YYYY-MM-DD HH:MM:SS" string the two-token sequence          *)
(* <<day, minute of day>>: what str.split() yields.  Of the pass-through   *)
(* columns open/high/low/close/volume/change_percent only close is kept.   *)
(***************************************************************************)
EXTENDS Integers, Sequences, FiniteSets, TLC

VARIABLES
    clock,              \* datetime.now(), minutes
    cached_index_data,  \* table cached_index_data, rows in insertion order
    next_id,            \* the table's autoincrement primary key
    writes,             \* cache_index_data calls committed so far
    batches,            \* history: the row ids each cache_index_data call inserted
    last,               \* the most recent completed call and what it returned
    reader,             \* a get_cached_index_data call between its two queries
    writer,             \* cache_index_data calls between their query and commit
    prediction_logs,    \* table prediction_logs, row i has primary key i
    evaluator,          \* evaluate_past_predictions calls between query and commit
    logger,             \* a log_prediction call between its first add and commit
    sentiment_history,  \* table sentiment_history, rows in insertion order
    NEWS_API_KEY,       \* news_service.NEWS_API_KEY, read once at import
    _news_cache         \* news_service._news_cache, cache_key -> entry

seriesVars == <<cached_index_data, next_id, writes, batches>>
raceVars == <<reader, writer>>
ledgerVars == <<prediction_logs, evaluator, logger>>
newsVars == <<NEWS_API_KEY, _news_cache>>
vars == <<clock, seriesVars, last, raceVars, ledgerVars, sentiment_history, newsVars>>

----------------------------------------------------------------------------
(* Bounds of the model *)

MaxWrites == 5
MaxClock == 4
MaxFreshWrites == 2
MaxFreshClock == 61
MaxRaceWrites == 5
MaxRaceClock == 3
MaxEntries == 1
MaxLedgerDays == 2
MaxForecastRows == 2
MaxAtomicDays == 4
MaxAtomicRows == 2
MaxValidClock == 62
MaxRelogDays == 2
MaxRelogRows == 4
MaxStatsDays == 1
MaxStatsRows == 2
MaxOutcomeDays == 1
MaxOutcomeRows == 1
MaxSentimentClock == 45
MaxSentimentRows == 2
MaxRsiCloses == 3
MaxHorizon == 9
MaxNoisyHorizon == 2
MaxDirectionRows == 2
MaxFrameWrites == 5
MaxCaseWrites == 1
MaxCaseRows == 1
MaxCaseDays == 1
MaxNewsClock == 6
MaxFrameClock == 4

MinutesPerDay == 24 * 60

None == <<>>
Some(v) == <<v>>

----------------------------------------------------------------------------
(* Inputs *)

IndexIds == {"sp500", "SP500"}
Periods == {"1mo"}
Intervals == {"1h", "1d"}

\* variant: the identifier is taken as it is written
UpperAsWritten(s) == s

\* str.upper() on the identifiers the model uses
Upper(s) == CASE s = "sp500" -> "SP500"
              [] s = "Sp500" -> "SP500"
              [] s = "dow" -> "DOW"
              [] s = "ghost" -> "GHOST"
              [] OTHER -> s

IntradayIntervals == {"1m", "5m", "15m", "30m", "1h"}

\* the minutes the clock may advance between two calls
ClockSteps == {15, 44}

\* point sequences as fetch_index_data formats them for the interval
Pt(d, c) == [date |-> d, close |-> c]
SeriesFor(interval) ==
    IF interval \in IntradayIntervals
    THEN { <<Pt(<<1, 600>>, 100), Pt(<<1, 660>>, 101)>>,
           <<Pt(<<2, 0>>, 102)>> }
    ELSE { <<Pt(<<1>>, 100), Pt(<<2>>, 101)>>,
           <<Pt(<<2>>, 101), Pt(<<1>>, 100)>>,
           <<Pt(<<2>>, 102)>> }
EvictSeriesFor(interval) ==
    IF interval \in IntradayIntervals
    THEN { <<Pt(<<1, 600>>, 100), Pt(<<1, 660>>, 101)>> }
    ELSE { <<Pt(<<1>>, 100), Pt(<<2>>, 101)>> }

----------------------------------------------------------------------------
(* Helpers over sequences *)

RECURSIVE InsertByDate(_, _)
\* x placed after every row whose date is <= x's: a stable insertion
InsertByDate(s, x) ==
    IF s = <<>> THEN <<x>>
    ELSE IF s[Len(s)].date <= x.date THEN Append(s, x)
    ELSE Append(InsertByDate(SubSeq(s, 1, Len(s) - 1), x), s[Len(s)])

RECURSIVE SortByDate(_)
\* ORDER BY date; rows of equal date stay in insertion order
SortByDate(s) ==
    IF s = <<>> THEN <<>>
    ELSE InsertByDate(SortByDate(SubSeq(s, 1, Len(s) - 1)), s[Len(s)])

RECURSIVE InsertByFetchedDesc(_, _)
InsertByFetchedDesc(s, x) ==
    IF s = <<>> THEN <<x>>
    ELSE IF s[Len(s)].fetched_at >= x.fetched_at THEN Append(s, x)
    ELSE Append(InsertByFetchedDesc(SubSeq(s, 1, Len(s) - 1), x), s[Len(s)])

RECURSIVE SortByFetchedDesc(_)
\* ORDER BY fetched_at DESC; rows of equal fetched_at stay in insertion order
SortByFetchedDesc(s) ==
    IF s = <<>> THEN <<>>
    ELSE InsertByFetchedDesc(SortByFetchedDesc(SubSeq(s, 1, Len(s) - 1)), s[Len(s)])

Range(s) == { s[i] : i \in DOMAIN s }

----------------------------------------------------------------------------
(* Cache freshness *)

CACHE_TTL(cache_type) ==
    CASE cache_type = "quote" -> 5
      [] cache_type = "daily_data" -> 60
      [] cache_type = "intraday_data" -> 15
      [] cache_type = "sentiment" -> 30
      [] OTHER -> 60

\* variant: a row is still served at the instant it expires
is_cache_valid_inclusive(fetched_at, cache_type, now) ==
    IF fetched_at = None THEN FALSE
    ELSE now <= fetched_at[1] + CACHE_TTL(cache_type)

\* variant: the default TTL for every cache type
is_cache_valid_default_ttl(fetched_at, cache_type, now) ==
    IF fetched_at = None THEN FALSE
    ELSE now < fetched_at[1] + 60

\* fetched_at is a nullable timestamp
is_cache_valid(fetched_at, cache_type, now) ==
    IF fetched_at = None THEN FALSE
    ELSE LET expiry == fetched_at[1] + CACHE_TTL(cache_type)
         IN now < expiry

----------------------------------------------------------------------------
(* Index data cache *)

\* datetime.strptime(s.split()[0], "%Y-%m-%d"): midnight of the day named
ParsePointDate(s) == s[1] * MinutesPerDay

\* strftime with the format the interval selects
FormatPointDate(dt, interval) ==
    IF interval \in IntradayIntervals
    THEN <<dt \div MinutesPerDay, dt % MinutesPerDay>>
    ELSE <<dt \div MinutesPerDay>>

\* datetime.isoformat(): date and time of day, one to one
IsoFormat(dt) == <<dt \div MinutesPerDay, dt % MinutesPerDay>>

KeyMatches(row, index_id, period, interval) ==
    /\ row.index_id = Upper(index_id)
    /\ row.period = period
    /\ row.interval = interval

\* variant: the interval is left out of the filter
OldEntriesAnyInterval(table, index_id, period, interval) ==
    SortByFetchedDesc(
        SelectSeq(table, LAMBDA r : r.index_id = Upper(index_id) /\ r.period = period))

\* the rows of the key, newest fetched_at first
OldEntries(table, index_id, period, interval) ==
    SortByFetchedDesc(
        SelectSeq(table, LAMBDA r : KeyMatches(r, index_id, period, interval)))

RECURSIVE PruneLoopByRows(_, _)
\* variant: counts rows instead of batches
PruneLoopByRows(old_entries, seen_batches) ==
    IF old_entries = <<>> THEN {}
    ELSE LET entry == Head(old_entries)
             seen == seen_batches \cup {entry.id}
         IN (IF Cardinality(seen) > 3 THEN {entry.id} ELSE {})
                \cup PruneLoopByRows(Tail(old_entries), seen)

RECURSIVE PruneLoop(_, _)
\* the ids the loop over old_entries hands to db.delete
PruneLoop(old_entries, seen_batches) ==
    IF old_entries = <<>> THEN {}
    ELSE LET entry == Head(old_entries)
             seen == seen_batches \cup {IsoFormat(entry.fetched_at)}
         IN (IF Cardinality(seen) > 3 THEN {entry.id} ELSE {})
                \cup PruneLoop(Tail(old_entries), seen)

NewEntries(index_id, period, interval, data, fetched_at, first_id) ==
    [i \in 1..Len(data) |->
        [id |-> first_id + i - 1,
         index_id |-> Upper(index_id),
         date |-> ParsePointDate(data[i].date),
         close |-> data[i].close,
         period |-> period,
         interval |-> interval,
         fetched_at |-> fetched_at]]

\* variant: a commit after every db.add, and a fault after the first
CommitEntriesFirstOnly(table, deleted, added) ==
    SelectSeq(table, LAMBDA r : r.id \notin deleted) \o SubSeq(added, 1, 1)

\* db.commit(): the pending deletes and inserts applied to the table at once
CommitEntries(table, deleted, added) ==
    SelectSeq(table, LAMBDA r : r.id \notin deleted) \o added

\* the table after a cache_index_data call that runs alone
CacheIndexData(table, index_id, period, interval, data, now, first_id) ==
    CommitEntries(table,
                  PruneLoop(OldEntries(table, index_id, period, interval), {}),
                  NewEntries(index_id, period, interval, data, now, first_id))

\* the rows the second query of get_cached_index_data returns
DataPoints(table, index_id, period, interval, fetched_at) ==
    SortByDate(SelectSeq(table, LAMBDA r : /\ KeyMatches(r, index_id, period, interval)
                                           /\ r.fetched_at = fetched_at))

PointsOut(rows, interval) ==
    [i \in 1..Len(rows) |->
        [date |-> FormatPointDate(rows[i].date, interval), close |-> rows[i].close]]

\* what get_cached_index_data returns: None, or Some(list of points)
GetCachedIndexData(table, index_id, period, interval, now) ==
    LET old == OldEntries(table, index_id, period, interval)
        cache_type == IF interval \in IntradayIntervals
                      THEN "intraday_data" ELSE "daily_data"
    IN IF old = <<>> THEN None
       ELSE IF ~is_cache_valid(Some(Head(old).fetched_at), cache_type, now) THEN None
       ELSE Some(PointsOut(DataPoints(table, index_id, period, interval,
                                      Head(old).fetched_at), interval))

----------------------------------------------------------------------------
(* State *)

Generations(table, index_id, period, interval) ==
    { r.fetched_at : r \in { x \in Range(table) :
                               KeyMatches(x, index_id, period, interval) } }

Idle == [pc |-> "idle"]
Writers == {"w1"}
Evaluators == {"e1", "e2"}

Init ==
    /\ clock = 0
    /\ cached_index_data = <<>>
    /\ next_id = 1
    /\ writes = 0
    /\ batches = {}
    /\ last = [op |-> "none"]
    /\ reader = Idle
    /\ writer = [w \in Writers |-> Idle]
    /\ prediction_logs = <<>>
    /\ evaluator = [e \in Evaluators |-> Idle]
    /\ logger = Idle
    /\ sentiment_history = <<>>
    /\ NEWS_API_KEY = ""
    /\ _news_cache = <<>>

Tick(d, max) ==
    /\ clock + d <= max
    /\ clock' = clock + d
    /\ UNCHANGED <<seriesVars, last, raceVars, ledgerVars, sentiment_history, newsVars>>

NewIds(n) == next_id .. (next_id + n - 1)

RowIds(rows) == { rows[i].id : i \in DOMAIN rows }

\* cache_index_data, run alone from its first line to its commit
WriteSeries(index_id, period, interval, data, max) ==
    /\ writes < max
    /\ cached_index_data' =
          CacheIndexData(cached_index_data, index_id, period, interval, data,
                         clock, next_id)
    /\ next_id' = next_id + Len(data)
    /\ writes' = writes + 1
    /\ batches' = batches \cup {NewIds(Len(data))}
    /\ last' = [op |-> "write", index_id |-> index_id, period |-> period,
                interval |-> interval, data |-> data, now |-> clock,
                evicted |-> Generations(cached_index_data, index_id, period, interval)
                              \ Generations(cached_index_data', index_id, period, interval)]
    /\ UNCHANGED <<clock, raceVars, ledgerVars, sentiment_history, newsVars>>

ReadRecord(index_id, period, interval, result, ids, raced) ==
    [op |-> "read", index_id |-> index_id, period |-> period,
     interval |-> interval, now |-> clock, result |-> result, ids |-> ids,
     raced |-> raced,
     wrote |-> IF /\ last.op = "write"
                  /\ Upper(last.index_id) = Upper(index_id)
                  /\ last.period = period
                  /\ last.interval = interval
                  /\ last.now = clock
               THEN Some(last.data) ELSE None]

\* get_cached_index_data, run alone
ReadSeries(index_id, period, interval) ==
    /\ LET result == GetCachedIndexData(cached_index_data, index_id, period,
                                        interval, clock)
           old == OldEntries(cached_index_data, index_id, period, interval)
       IN last' = ReadRecord(index_id, period, interval, result,
                             IF result = None THEN {}
                             ELSE RowIds(DataPoints(cached_index_data, index_id, period,
                                                    interval, Head(old).fetched_at)),
                             FALSE)
    /\ UNCHANGED <<clock, seriesVars, raceVars, ledgerVars, sentiment_history, newsVars>>

\* Retention: successive writes one minute or no time apart
EvictTick == Tick(1, MaxClock)
EvictWrite ==
    \E index_id \in IndexIds, period \in Periods, interval \in Intervals :
        \E data \in EvictSeriesFor(interval) :
            WriteSeries(index_id, period, interval, data, MaxWrites)

Next == EvictTick \/ EvictWrite

Spec == Init /\ [][Next]_vars

\* Freshness: few writes, the clock moving across both TTLs
FreshTick == \E d \in ClockSteps : Tick(d, MaxFreshClock)
FreshWrite ==
    \E index_id \in IndexIds, period \in Periods, interval \in Intervals :
        \E data \in SeriesFor(interval) :
            WriteSeries(index_id, period, interval, data, MaxFreshWrites)
FreshRead ==
    \E index_id \in IndexIds, period \in Periods, interval \in Intervals :
        ReadSeries(index_id, period, interval)

NextFresh == FreshTick \/ FreshWrite \/ FreshRead

SpecFresh == Init /\ [][NextFresh]_vars

----------------------------------------------------------------------------
(* Calls in separate sessions, interleaved at their statements.  Each      *)
(* statement sees the rows committed so far (READ COMMITTED, the engine's  *)
(* default), and a commit applies a session's deletes and inserts at once.  *)

\* lines 95-113: fetched_at is read, old_entries queried, the deletes marked
WriterQuery(w, index_id, period, interval, data) ==
    /\ writer[w].pc = "idle"
    /\ writes + Cardinality({x \in Writers : writer[x].pc = "queried"}) < MaxRaceWrites
    /\ writer' = [writer EXCEPT ![w] =
          [pc |-> "queried", index_id |-> index_id, period |-> period,
           interval |-> interval, data |-> data, fetched_at |-> clock,
           deleted |-> PruneLoop(OldEntries(cached_index_data, index_id, period,
                                            interval), {})]]
    /\ UNCHANGED <<clock, seriesVars, last, reader, ledgerVars, sentiment_history, newsVars>>

\* lines 115-133: the new rows are added and the session commits
WriterCommit(w) ==
    /\ writer[w].pc = "queried"
    /\ cached_index_data' =
          CommitEntries(cached_index_data, writer[w].deleted,
                        NewEntries(writer[w].index_id, writer[w].period,
                                   writer[w].interval, writer[w].data,
                                   writer[w].fetched_at, next_id))
    /\ next_id' = next_id + Len(writer[w].data)
    /\ writes' = writes + 1
    /\ batches' = batches \cup {NewIds(Len(writer[w].data))}
    /\ writer' = [writer EXCEPT ![w] = Idle]
    /\ reader' = IF reader.pc = "latest" THEN [reader EXCEPT !.raced = TRUE]
                 ELSE reader
    /\ UNCHANGED <<clock, last, ledgerVars, sentiment_history, newsVars>>

\* lines 45-60: the latest row is queried and its freshness checked
ReaderLatest(index_id, period, interval) ==
    /\ reader.pc = "idle"
    /\ LET old == OldEntries(cached_index_data, index_id, period, interval)
           cache_type == IF interval \in IntradayIntervals
                         THEN "intraday_data" ELSE "daily_data"
       IN IF \/ old = <<>>
             \/ ~is_cache_valid(Some(Head(old).fetched_at), cache_type, clock)
          THEN /\ last' = ReadRecord(index_id, period, interval, None, {}, FALSE)
               /\ UNCHANGED reader
          ELSE /\ reader' = [pc |-> "latest", index_id |-> index_id,
                             period |-> period, interval |-> interval,
                             fetched_at |-> Head(old).fetched_at,
                             raced |-> FALSE]
               /\ UNCHANGED last
    /\ UNCHANGED <<clock, seriesVars, writer, ledgerVars, sentiment_history, newsVars>>

\* lines 62-83: the rows of latest.fetched_at are queried and returned
ReaderPoints ==
    /\ reader.pc = "latest"
    /\ LET rows == DataPoints(cached_index_data, reader.index_id, reader.period,
                              reader.interval, reader.fetched_at)
       IN last' = ReadRecord(reader.index_id, reader.period, reader.interval,
                             Some(PointsOut(rows, reader.interval)), RowIds(rows),
                             reader.raced)
    /\ reader' = Idle
    /\ UNCHANGED <<clock, seriesVars, writer, ledgerVars, sentiment_history, newsVars>>

RaceTick == Tick(1, MaxRaceClock)
RaceWriterQuery ==
    \E w \in Writers : \E data \in EvictSeriesFor("1d") :
        WriterQuery(w, "SP500", "1mo", "1d", data)
RaceWriterCommit == \E w \in Writers : WriterCommit(w)
RaceReaderLatest == ReaderLatest("sp500", "1mo", "1d")

NextRace ==
    RaceTick \/ RaceWriterQuery \/ RaceWriterCommit \/ RaceReaderLatest \/ ReaderPoints

SpecRace == Init /\ [][NextRace]_vars

----------------------------------------------------------------------------
(* Prediction ledger.  Prices are whole numbers and the ratios computed    *)
(* from them are kept exact, as <<numerator, denominator>>.                *)

LedgerIndexIds == {"sp500", "DOW"}

\* `if x:` on a nullable number
Truthy(x) == x # None /\ x[1] # 0

\* strftime("%Y-%m-%d") and strptime(s, "%Y-%m-%d")
FormatDay(dt) == <<dt \div MinutesPerDay>>
ParseDay(s) == s[1] * MinutesPerDay

Abs(x) == IF x < 0 THEN 0 - x ELSE x

\* variant: `>=` where the code has `>`
RatioAtLeastHalves(q, h) ==
    IF q[2] > 0 THEN 2 * q[1] >= h * q[2] ELSE 2 * q[1] <= h * q[2]

\* q[1] / q[2] compared with h / 2
RatioAboveHalves(q, h) ==
    IF q[2] > 0 THEN 2 * q[1] > h * q[2] ELSE 2 * q[1] < h * q[2]
RatioBelowHalves(q, h) ==
    IF q[2] > 0 THEN 2 * q[1] < h * q[2] ELSE 2 * q[1] > h * q[2]

\* variant: no max(0.3, ...)
DayConfidenceNoFloor(i) == 85 - i * 7

\* round(max(0.3, 0.85 - i * 0.07), 2), in hundredths
DayConfidence(i) == IF 85 - i * 7 < 30 THEN 30 ELSE 85 - i * 7

\* the per-day list generate_prediction builds; the noisy prices are inputs.
\* readings[i]: what datetime.now() returns in pass i of the loop (line 229)
PredictionsAt(readings, closes) ==
    [i \in 1..Len(closes) |->
        [date |-> FormatDay(readings[i] + i * MinutesPerDay),
         predicted_close |-> closes[i],
         confidence |-> Some(DayConfidence(i))]]

\* the list when the whole loop runs within one reading of the clock
Predictions(now, closes) ==
    PredictionsAt([i \in 1..Len(closes) |-> now], closes)

PredictionData(now, f) ==
    [current_price |-> f.current_price,
     prediction_days |-> Len(f.closes),
     predicted_direction |-> f.predicted_direction,
     predictions |-> Predictions(now, f.closes)]

\* what a forecast may carry: a usual one, one with a zero predicted price,
\* one with a zero current price, one with no current price, one of two days
ForecastInputs ==
    { [current_price |-> Some(100), predicted_direction |-> "bullish",
       closes |-> <<Some(105)>>],
      [current_price |-> Some(100), predicted_direction |-> "bearish",
       closes |-> <<Some(0)>>],
      [current_price |-> Some(0), predicted_direction |-> "neutral",
       closes |-> <<Some(105)>>],
      [current_price |-> None, predicted_direction |-> "neutral",
       closes |-> <<Some(105)>>],
      [current_price |-> Some(100), predicted_direction |-> "bullish",
       closes |-> <<Some(105), Some(110)>>] }

\* the rows log_prediction adds
LogEntries(index_id, prediction_data, now) ==
    [i \in 1..Len(prediction_data.predictions) |->
        [index_id |-> Upper(index_id),
         prediction_date |-> now,
         target_date |-> ParseDay(prediction_data.predictions[i].date),
         prediction_days |-> prediction_data.prediction_days,
         current_price |-> prediction_data.current_price,
         predicted_price |-> prediction_data.predictions[i].predicted_close,
         predicted_direction |-> prediction_data.predicted_direction,
         confidence |-> prediction_data.predictions[i].confidence,
         actual_price |-> None,
         actual_change_percent |-> None,
         actual_direction |-> None,
         was_correct |-> None,
         accuracy_score |-> None,
         evaluated_at |-> None]]

OutcomeColumns ==
    {"actual_price", "actual_change_percent", "actual_direction", "was_correct",
     "accuracy_score", "evaluated_at"}

\* variant: the query does not ask for actual_price IS NULL
PendingAnyPrice(table, index_id, now) ==
    { i \in DOMAIN table : /\ table[i].index_id = Upper(index_id)
                           /\ table[i].target_date <= now }

\* variant: the query does not ask for target_date <= now
PendingAnyDate(table, index_id, now) ==
    { i \in DOMAIN table : /\ table[i].index_id = Upper(index_id)
                           /\ table[i].actual_price = None }

\* variant: the query does not ask for the index
PendingAnyIndex(table, index_id, now) ==
    { i \in DOMAIN table : /\ table[i].actual_price = None
                           /\ table[i].target_date <= now }

\* the primary keys the pending query returns
Pending(table, index_id, now) ==
    { i \in DOMAIN table : /\ table[i].index_id = Upper(index_id)
                           /\ table[i].actual_price = None
                           /\ table[i].target_date <= now }

\* variant: no max(0, ...) around the score
AccuracyScoreNoFloor(predicted, actual) ==
    <<actual - 10 * Abs(predicted - actual), actual>>

\* max(0, 1 - error_percent / 10), error_percent = |predicted - actual| / actual * 100
AccuracyScore(predicted, actual) ==
    LET num == actual - 10 * Abs(predicted - actual)
    IN IF (actual > 0 /\ num > 0) \/ (actual < 0 /\ num < 0)
       THEN <<num, actual>> ELSE <<0, 1>>

\* variant: evaluated_at is set only inside `if pred.current_price:`
EvaluateEntryStampInside(pred, actual, now, np) ==
    [raised |-> FALSE,
     pred |-> IF Truthy(pred.current_price)
              THEN [pred EXCEPT !.actual_price = Some(actual),
                                !.actual_direction = Some("neutral"),
                                !.was_correct = Some(pred.predicted_direction = "neutral"),
                                !.accuracy_score =
                                    IF Truthy(pred.predicted_price)
                                    THEN Some(<<0, 1>>) ELSE None,
                                !.evaluated_at = Some(now)]
              ELSE [pred EXCEPT !.actual_price = Some(actual)]]

\* lines 294-318 for one row.  np: the prices are numpy floats (as the
\* evaluate endpoint passes them), whose division by zero yields inf; with
\* plain floats line 315 raises ZeroDivisionError.
EvaluateEntry(pred, actual, now, np) ==
    LET cur == pred.current_price[1]
        change == <<(actual - cur) * 100, cur>>
        direction == IF RatioAboveHalves(change, 1) THEN "bullish"
                     ELSE IF RatioBelowHalves(change, -1) THEN "bearish"
                     ELSE "neutral"
        p1 == [pred EXCEPT !.actual_price = Some(actual)]
        p2 == IF Truthy(pred.current_price)
              THEN [p1 EXCEPT !.actual_change_percent = Some(change),
                              !.actual_direction = Some(direction),
                              !.was_correct = Some(pred.predicted_direction = direction)]
              ELSE p1
        scored == Truthy(pred.current_price) /\ Truthy(pred.predicted_price)
        p3 == IF scored
              THEN [p2 EXCEPT !.accuracy_score =
                       Some(IF actual = 0 THEN <<0, 1>>
                            ELSE AccuracyScore(pred.predicted_price[1], actual))]
              ELSE p2
    IN IF scored /\ actual = 0 /\ ~np
       THEN [raised |-> TRUE, pred |-> pred]
       ELSE [raised |-> FALSE, pred |-> [p3 EXCEPT !.evaluated_at = Some(now)]]

\* the loop of lines 291-318 over the rows a session loaded
EvaluateRows(loaded, actual_prices, now, np) ==
    [i \in DOMAIN loaded |->
        IF FormatDay(loaded[i].target_date) \in DOMAIN actual_prices
        THEN EvaluateEntry(loaded[i], actual_prices[FormatDay(loaded[i].target_date)],
                           now, np)
        ELSE [raised |-> FALSE, pred |-> loaded[i]]]

\* variant: the changed rows are added as new rows, the loaded ones stay as
\* they were
CommitRowsAppend(table, loaded, new) ==
    LET changed == { i \in DOMAIN loaded : new[i].pred # loaded[i] }
    IN IF changed = {} THEN table
       ELSE Append(table, new[CHOOSE i \in changed : \A j \in changed : i <= j].pred)

\* db.commit(): one UPDATE per loaded row, of the columns the session changed
CommitRows(table, loaded, new) ==
    [i \in DOMAIN table |->
        IF i \in DOMAIN loaded
        THEN [c \in DOMAIN table[i] |->
                 IF c \in OutcomeColumns /\ new[i].pred[c] # loaded[i][c]
                 THEN new[i].pred[c] ELSE table[i][c]]
        ELSE table[i]]

\* the table after an evaluate_past_predictions call that runs alone
EvaluatePastPredictions(table, index_id, actual_prices, now, np) ==
    LET loaded == [i \in Pending(table, index_id, now) |-> table[i]]
        new == EvaluateRows(loaded, actual_prices, now, np)
    IN IF \E i \in DOMAIN new : new[i].raised THEN table
       ELSE CommitRows(table, loaded, new)

EvaluateRaises(table, index_id, actual_prices, now, np) ==
    LET loaded == [i \in Pending(table, index_id, now) |-> table[i]]
        new == EvaluateRows(loaded, actual_prices, now, np)
    IN \E i \in DOMAIN new : new[i].raised

\* log_prediction called with a forecast made now
LogPrediction(index_id, f) ==
    /\ Len(prediction_logs) + Len(f.closes) <= MaxEntries
    /\ prediction_logs' =
          prediction_logs \o LogEntries(index_id, PredictionData(clock, f), clock)
    /\ last' = [op |-> "log"]
    /\ UNCHANGED <<clock, seriesVars, raceVars, evaluator, logger, sentiment_history, newsVars>>

\* evaluate_past_predictions, run alone.  repeat: the call before it was the
\* same call, made at the same clock reading.
Evaluate(index_id, actual_prices, np) ==
    /\ prediction_logs' =
          EvaluatePastPredictions(prediction_logs, index_id, actual_prices, clock, np)
    /\ last' = [op |-> "evaluate", index_id |-> index_id,
                actual_prices |-> actual_prices, np |-> np,
                raised |-> EvaluateRaises(prediction_logs, index_id, actual_prices,
                                          clock, np),
                repeat |-> /\ last.op = "evaluate"
                           /\ last.index_id = index_id
                           /\ last.actual_prices = actual_prices
                           /\ last.np = np]
    /\ UNCHANGED <<clock, seriesVars, raceVars, evaluator, logger, sentiment_history, newsVars>>

ActualPrices == {0, 103}
PriceDays == { <<1>>, <<2>> }
PriceMaps == [PriceDays -> ActualPrices]

\* a day passes; no call is the latest one any more
LedgerTick ==
    /\ clock + MinutesPerDay <= MaxLedgerDays * MinutesPerDay
    /\ clock' = clock + MinutesPerDay
    /\ last' = [op |-> "tick"]
    /\ UNCHANGED <<seriesVars, raceVars, ledgerVars, sentiment_history, newsVars>>

LedgerLog ==
    \E index_id \in LedgerIndexIds, f \in ForecastInputs : LogPrediction(index_id, f)
LedgerEvaluate ==
    \E index_id \in LedgerIndexIds, actual_prices \in PriceMaps, np \in BOOLEAN :
        Evaluate(index_id, actual_prices, np)

NextLedger == LedgerTick \/ LedgerLog \/ LedgerEvaluate

SpecLedger == Init /\ [][NextLedger]_vars

----------------------------------------------------------------------------
(* Two sessions running evaluate_past_predictions for one index.  A session *)
(* runs its query, then the loop over what it loaded, then its commit.      *)

\* lines 283-289: the session loads the pending rows
EvalSelect(e, index_id, actual_prices, np) ==
    /\ evaluator[e].pc = "idle"
    /\ evaluator' =
          [evaluator EXCEPT ![e] =
              [pc |-> "selected", actual_prices |-> actual_prices, np |-> np,
               loaded |-> [i \in Pending(prediction_logs, index_id, clock) |->
                              prediction_logs[i]]]]
    /\ UNCHANGED <<clock, seriesVars, last, raceVars, prediction_logs, logger, sentiment_history, newsVars>>

\* lines 291-318: the loop sets the fields on the loaded objects; an exception
\* ends the request and the session is closed without a commit
EvalSet(e) ==
    /\ evaluator[e].pc = "selected"
    /\ LET new == EvaluateRows(evaluator[e].loaded, evaluator[e].actual_prices,
                               clock, evaluator[e].np)
       IN evaluator' =
             [evaluator EXCEPT ![e] =
                 IF \E i \in DOMAIN new : new[i].raised THEN Idle
                 ELSE [pc |-> "set", loaded |-> evaluator[e].loaded, new |-> new]]
    /\ UNCHANGED <<clock, seriesVars, last, raceVars, prediction_logs, logger, sentiment_history, newsVars>>

\* line 320
EvalCommit(e) ==
    /\ evaluator[e].pc = "set"
    /\ prediction_logs' =
          CommitRows(prediction_logs, evaluator[e].loaded, evaluator[e].new)
    /\ evaluator' = [evaluator EXCEPT ![e] = Idle]
    /\ UNCHANGED <<clock, seriesVars, last, raceVars, logger, sentiment_history, newsVars>>

RacePriceMaps == { [d \in PriceDays |-> p] : p \in ActualPrices }

EvalRaceSelect ==
    \E e \in Evaluators, actual_prices \in RacePriceMaps, np \in BOOLEAN :
        EvalSelect(e, "sp500", actual_prices, np)
EvalRaceSet == \E e \in Evaluators : EvalSet(e)
EvalRaceCommit == \E e \in Evaluators : EvalCommit(e)

NextEvalRace ==
    LedgerTick \/ LedgerLog \/ EvalRaceSelect \/ EvalRaceSet \/ EvalRaceCommit

SpecEvalRace == Init /\ [][NextEvalRace]_vars

----------------------------------------------------------------------------
(* Evaluation with mappings that lack some dates, as a month of daily      *)
(* closes lacks the days the market was shut.                              *)

GapPriceMaps == UNION { [D -> ActualPrices] : D \in { {<<1>>}, {<<2>>} } }

GapEvaluate ==
    \E index_id \in LedgerIndexIds, actual_prices \in GapPriceMaps, np \in BOOLEAN :
        Evaluate(index_id, actual_prices, np)

NextGaps == LedgerTick \/ LedgerLog \/ GapEvaluate

SpecGaps == Init /\ [][NextGaps]_vars

----------------------------------------------------------------------------
(* A forecast request, GET /predict/{index_id}: get_prediction and what it  *)
(* calls.  trace lists the store and upstream calls the request makes.      *)

\* two of settings.INDICES
INDICES == {"SP500", "DOWJONES"}

get_index_info(index_id) ==
    IF Upper(index_id) \in INDICES THEN Some(Upper(index_id)) ELSE None

\* the closes ticker.history gives: none (an empty frame, or an exception on
\* the way), or 1, 19 or 20 daily closes
Histories ==
    { <<>>, [i \in 1..1 |-> 100], [i \in 1..19 |-> 100], [i \in 1..20 |-> 100] }

\* variant: an unknown index or an empty frame is answered with one made-up
\* close
fetch_index_data_mock(index_id, hist, current_price) ==
    Some([index_id |-> Upper(index_id),
          current_price |-> current_price,
          data |-> IF hist = <<>> THEN <<100>> ELSE hist])

fetch_index_data(index_id, hist, current_price) ==
    IF get_index_info(index_id) = None THEN None
    ELSE IF hist = <<>> THEN None
    ELSE Some([index_id |-> get_index_info(index_id)[1],
               current_price |-> current_price,
               data |-> hist])

\* the keys of the dict calculate_technical_indicators returns
TechnicalKeys(data) ==
    IF Len(data) < 20 THEN {"trend", "momentum", "volatility"}
    ELSE {"trend", "momentum", "volatility", "rsi", "sma_5", "sma_20",
          "current_price"}

\* the keys generate_prediction reads with technicals[...]
TechnicalKeysRead == {"trend", "momentum", "rsi", "sma_5", "sma_20"}

\* f: the upstream quote and what the signals and the noise make of it
generate_prediction(index_id, hist, f, now) ==
    LET index_data == fetch_index_data(index_id, hist, f.current_price)
    IN IF index_data = None \/ index_data[1].data = <<>>
       THEN [raised |-> FALSE, prediction |-> None,
             trace |-> <<"fetch_index_data">>]
       ELSE IF ~(TechnicalKeysRead \subseteq TechnicalKeys(index_data[1].data))
       THEN [raised |-> TRUE, prediction |-> None,
             trace |-> <<"fetch_index_data", "calculate_technical_indicators",
                         "get_sentiment_analysis">>]
       ELSE [raised |-> FALSE,
             prediction |-> Some(PredictionData(now, f)),
             trace |-> <<"fetch_index_data", "calculate_technical_indicators",
                         "get_sentiment_analysis">>]

\* the row save_sentiment_history adds
SentimentRow(index_id, query, sentiment_data, now) ==
    [index_id |-> Upper(index_id),
     query |-> query,
     overall_sentiment |-> sentiment_data.label,
     sentiment_score |-> sentiment_data.score,
     analyzed_at |-> now]

\* variant: the try block ends after log_prediction
LoggingFailureCaughtLogOnly(log_failed, sentiment_failed) == ~sentiment_failed

\* lines 42-52: `except Exception` around log_prediction and
\* save_sentiment_history catches whichever of the two raised
LoggingFailureCaught(log_failed, sentiment_failed) == TRUE

\* get_prediction.  log_fails, sentiment_fails: the commit of log_prediction,
\* of save_sentiment_history raises.
GetPrediction(index_id, save_to_history, hist, f, log_fails, sentiment_fails) ==
    LET g == generate_prediction(index_id, hist, f, clock)
        forecast == ~g.raised /\ g.prediction # None
        logging == forecast /\ save_to_history
        logged == logging /\ ~log_fails
        saved == logged /\ ~sentiment_fails
    IN /\ Len(prediction_logs) + Len(f.closes) <= MaxForecastRows
       /\ f.current_price # None
       /\ prediction_logs' =
             IF logged
             THEN prediction_logs \o LogEntries(index_id, g.prediction[1], clock)
             ELSE prediction_logs
       /\ sentiment_history' =
             IF saved
             THEN Append(sentiment_history,
                         SentimentRow(index_id, Upper(index_id),
                                      [label |-> "neutral", score |-> 0], clock))
             ELSE sentiment_history
       /\ last' = [op |-> "predict", index_id |-> index_id,
                   save_to_history |-> save_to_history,
                   points |-> Len(hist), days |-> Len(f.closes),
                   trace |-> g.trace
                             \o (IF logging THEN <<"log_prediction">> ELSE <<>>)
                             \o (IF logged THEN <<"save_sentiment_history">>
                                 ELSE <<>>),
                   response |-> IF g.raised THEN "error"
                                ELSE IF g.prediction = None THEN "unavailable"
                                ELSE IF LoggingFailureCaught(
                                            logging /\ log_fails,
                                            logged /\ sentiment_fails)
                                THEN "forecast"
                                ELSE "error",
                   log_fails |-> logging /\ log_fails,
                   sentiment_fails |-> logged /\ sentiment_fails]
       /\ UNCHANGED <<clock, seriesVars, raceVars, evaluator, logger, newsVars>>

ForecastIndexIds == {"sp500", "ghost"}

ForecastRequest ==
    \E index_id \in ForecastIndexIds, save_to_history \in BOOLEAN,
       hist \in Histories, f \in ForecastInputs,
       log_fails \in BOOLEAN, sentiment_fails \in BOOLEAN :
        \* a write that is not attempted cannot fail
        /\ log_fails => save_to_history
        /\ sentiment_fails => save_to_history /\ ~log_fails
        /\ GetPrediction(index_id, save_to_history, hist, f, log_fails,
                         sentiment_fails)

NextForecast == LedgerTick \/ ForecastRequest

SpecForecast == Init /\ [][NextForecast]_vars

----------------------------------------------------------------------------
(* The three writing calls taken statement by statement, each in a session *)
(* of its own; any of them may fail before its commit.  What a reader in   *)
(* another session can see is the tables of the state it runs in.          *)

\* an exception before db.commit(): the request ends, the session is closed
WriterFail(w) ==
    /\ writer[w].pc = "queried"
    /\ writer' = [writer EXCEPT ![w] = Idle]
    /\ UNCHANGED <<clock, seriesVars, last, reader, ledgerVars, sentiment_history, newsVars>>

\* log_prediction entered: the rows its loop is going to add
LogBegin(index_id, f) ==
    /\ logger.pc = "idle"
    /\ Len(prediction_logs) + Len(f.closes) <= MaxAtomicRows
    /\ logger' = [pc |-> "adding", added |-> 0,
                  rows |-> LogEntries(index_id, PredictionData(clock, f), clock)]
    /\ UNCHANGED <<clock, seriesVars, last, raceVars, prediction_logs, evaluator,
                   sentiment_history, newsVars>>

\* lines 228-242: one pass of the loop, db.add(log)
LogAdd ==
    /\ logger.pc = "adding"
    /\ logger.added < Len(logger.rows)
    /\ logger' = [logger EXCEPT !.added = logger.added + 1]
    /\ UNCHANGED <<clock, seriesVars, last, raceVars, prediction_logs, evaluator,
                   sentiment_history, newsVars>>

\* line 244
LogCommit ==
    /\ logger.pc = "adding"
    /\ logger.added = Len(logger.rows)
    /\ prediction_logs' = prediction_logs \o SubSeq(logger.rows, 1, logger.added)
    /\ logger' = Idle
    /\ UNCHANGED <<clock, seriesVars, last, raceVars, evaluator, sentiment_history, newsVars>>

\* an exception in the loop or in the commit: get_prediction swallows it and
\* commits nothing after it
LogFail ==
    /\ logger.pc = "adding"
    /\ logger' = Idle
    /\ UNCHANGED <<clock, seriesVars, last, raceVars, prediction_logs, evaluator,
                   sentiment_history, newsVars>>

\* no writing call is under way: here the writing calls start one at a time,
\* and the reader looks on at every step
Quiet ==
    /\ \A w \in Writers : writer[w].pc = "idle"
    /\ \A e \in Evaluators : evaluator[e].pc = "idle"
    /\ logger.pc = "idle"

AtomicTick == Tick(MinutesPerDay, MaxAtomicDays * MinutesPerDay)
AtomicWriterQuery == Quiet /\ RaceWriterQuery
AtomicWriterFail == \E w \in Writers : WriterFail(w)
AtomicLogBegin ==
    /\ Quiet
    /\ \E f \in { g \in ForecastInputs : Len(g.closes) = 2 } : LogBegin("sp500", f)
AtomicEvalSelect ==
    /\ Quiet
    /\ \E actual_prices \in RacePriceMaps, np \in BOOLEAN :
          EvalSelect("e1", "sp500", actual_prices, np)
AtomicEvalSet == EvalSet("e1")
AtomicEvalCommit == EvalCommit("e1")

NextAtomic ==
    \/ AtomicTick
    \/ AtomicWriterQuery \/ RaceWriterCommit \/ AtomicWriterFail
    \/ AtomicLogBegin \/ LogAdd \/ LogCommit \/ LogFail
    \/ AtomicEvalSelect \/ AtomicEvalSet \/ AtomicEvalCommit

SpecAtomic == Init /\ [][NextAtomic]_vars

----------------------------------------------------------------------------
(* is_cache_valid on its own: a timestamp or none, every cache type, the   *)
(* clock moving minute by minute across every TTL.                         *)

CacheTypes == {"quote", "daily_data", "intraday_data", "sentiment", "unlisted"}
ValidStamps == {0, 2}

IsCacheValid(fetched_at, cache_type) ==
    /\ fetched_at # None => fetched_at[1] <= clock
    /\ last' = [op |-> "valid", fetched_at |-> fetched_at, cache_type |-> cache_type,
                now |-> clock, valid |-> is_cache_valid(fetched_at, cache_type, clock)]
    /\ UNCHANGED <<clock, seriesVars, raceVars, ledgerVars, sentiment_history, newsVars>>

ValidTick == Tick(1, MaxValidClock)
ValidCall ==
    \E fetched_at \in {None} \cup { Some(t) : t \in ValidStamps },
       cache_type \in CacheTypes :
        IsCacheValid(fetched_at, cache_type)

NextValid == ValidTick \/ ValidCall

SpecValid == Init /\ [][NextValid]_vars

----------------------------------------------------------------------------
(* Forecasting again: generate_prediction and log_prediction as one call   *)
(* that takes time, the clock read anew in every pass of the forecast loop. *)

LastMinute == MinutesPerDay - 1

\* the clock moves on to the last minute of the day, then to midnight
RelogTick ==
    Tick(IF (clock % MinutesPerDay) < LastMinute
         THEN LastMinute - (clock % MinutesPerDay) ELSE 1,
         MaxRelogDays * MinutesPerDay)

\* the clock in pass i: lags[j] minutes go by between pass j and pass j + 1
RECURSIVE ReadingAt(_, _, _)
ReadingAt(start, lags, i) ==
    IF i = 1 THEN start ELSE ReadingAt(start, lags, i - 1) + lags[i - 1]

\* get_prediction with save_to_history: generate_prediction's loop, then
\* log_prediction and save_sentiment_history; prediction_date and analyzed_at
\* are the column default now() evaluated at the insert
Relog(index_id, f, lags) ==
    LET days == Len(f.closes)
        readings == [i \in 1..days |-> ReadingAt(clock, lags, i)]
        prediction_data ==
            [current_price |-> f.current_price,
             prediction_days |-> days,
             predicted_direction |-> f.predicted_direction,
             predictions |-> PredictionsAt(readings, f.closes)]
    IN /\ Len(prediction_logs) + days <= MaxRelogRows
       /\ f.current_price # None
       /\ readings[days] <= MaxRelogDays * MinutesPerDay
       /\ clock' = readings[days]
       /\ prediction_logs' =
             prediction_logs \o LogEntries(index_id, prediction_data, clock')
       /\ last' = [op |-> "relog", index_id |-> index_id, days |-> days,
                   requested_at |-> clock, old |-> prediction_logs]
       /\ sentiment_history' =
             Append(sentiment_history,
                    SentimentRow(index_id, Upper(index_id),
                                 [label |-> "neutral", score |-> 0], clock'))
       /\ UNCHANGED <<seriesVars, raceVars, evaluator, logger, newsVars>>

RelogForecast ==
    \E f \in ForecastInputs :
        \E lags \in [1..(Len(f.closes) - 1) -> {0, 1}] : Relog("sp500", f, lags)

NextRelog == RelogTick \/ RelogForecast

SpecRelog == Init /\ [][NextRelog]_vars

----------------------------------------------------------------------------
(* Accuracy statistics over the ledger *)

RECURSIVE Gcd(_, _)
Gcd(a, b) == IF b = 0 THEN a ELSE Gcd(b, a % b)

\* q in lowest terms with a positive denominator
Reduce(q) ==
    LET g == Gcd(Abs(q[1]), Abs(q[2]))
        sign == IF q[2] < 0 THEN 0 - 1 ELSE 1
    IN <<sign * (q[1] \div g), sign * (q[2] \div g)>>

RatAdd(a, b) == Reduce(<<a[1] * b[2] + b[1] * a[2], a[2] * b[2]>>)

\* round(q, 2) for q >= 0, in hundredths (no tie arises below 32 rows)
RoundHundredths(q) == (200 * Reduce(q)[1] + Reduce(q)[2]) \div (2 * Reduce(q)[2])

RECURSIVE ScoreSum(_, _)
\* sum(p.accuracy_score or 0 for p in evaluated)
ScoreSum(table, rows) ==
    IF rows = {} THEN <<0, 1>>
    ELSE LET i == CHOOSE j \in rows : TRUE
             score == IF table[i].accuracy_score = None THEN <<0, 1>>
                      ELSE Reduce(table[i].accuracy_score[1])
         IN RatAdd(score, ScoreSum(table, rows \ {i}))

MaxOf(S) == CHOOSE x \in S : \A y \in S : y <= x

\* variant: the query asks for actual_price IS NOT NULL
EvaluatedRowsByPrice(table, index_id) ==
    { i \in DOMAIN table : /\ table[i].index_id = Upper(index_id)
                           /\ table[i].actual_price # None }

\* the rows the query of lines 326-331 returns
EvaluatedRows(table, index_id) ==
    { i \in DOMAIN table : /\ table[i].index_id = Upper(index_id)
                           /\ table[i].was_correct # None }

\* lines 336-345; divisions: how many times a value was divided by
\* len(evaluated)
AccuracyStats(table, rows) ==
    LET total == Cardinality(rows)
        correct == Cardinality({ i \in rows : table[i].was_correct = Some(TRUE) })
    IN IF total = 0 THEN [raised |-> TRUE, divisions |-> 1]
       ELSE [raised |-> FALSE, divisions |-> 2,
             total_predictions |-> total,
             correct_predictions |-> correct,
             direction_accuracy |-> RoundHundredths(<<correct * 100, total>>),
             price_accuracy |->
                 LET sum == ScoreSum(table, rows)
                 IN RoundHundredths(<<sum[1] * 100, sum[2] * total>>),
             last_evaluated |->
                 MaxOf({ table[i].evaluated_at[1] :
                           i \in { j \in rows : table[j].evaluated_at # None } })]

NoData == [raised |-> FALSE, divisions |-> 0, total_predictions |-> 0, accuracy |-> None]

\* variant: no `if not evaluated` before the averages
get_prediction_accuracy_unguarded(table, index_id) ==
    AccuracyStats(table, EvaluatedRows(table, index_id))

get_prediction_accuracy(table, index_id) ==
    IF EvaluatedRows(table, index_id) = {} THEN NoData
    ELSE AccuracyStats(table, EvaluatedRows(table, index_id))

StatsTick == Tick(MinutesPerDay, MaxStatsDays * MinutesPerDay)

\* one-day forecasts: one that proves right, one that proves wrong and has
\* no score, one without a verdict
StatsForecasts ==
    { f \in ForecastInputs : Len(f.closes) = 1 /\ f.current_price # None }

StatsLog ==
    \E index_id \in LedgerIndexIds, f \in StatsForecasts :
        /\ Len(prediction_logs) + Len(f.closes) <= MaxStatsRows
        /\ prediction_logs' =
              prediction_logs \o LogEntries(index_id, PredictionData(clock, f), clock)
        /\ last' = [op |-> "log"]
        /\ UNCHANGED <<clock, seriesVars, raceVars, evaluator, logger,
                       sentiment_history, newsVars>>

StatsEvaluate ==
    \E index_id \in LedgerIndexIds, actual_prices \in RacePriceMaps :
        Evaluate(index_id, actual_prices, TRUE)

\* GET /predictions/{index_id}/history and the end of the evaluate endpoint
GetAccuracy(index_id) ==
    /\ last' = [op |-> "accuracy", index_id |-> index_id,
                result |-> get_prediction_accuracy(prediction_logs, index_id)]
    /\ UNCHANGED <<clock, seriesVars, raceVars, ledgerVars, sentiment_history, newsVars>>

StatsQuery == \E index_id \in LedgerIndexIds : GetAccuracy(index_id)

NextStats == StatsTick \/ StatsLog \/ StatsEvaluate \/ StatsQuery

SpecStats == Init /\ [][NextStats]_vars

----------------------------------------------------------------------------
(* Outcomes: one entry evaluated against prices on both sides of the       *)
(* direction thresholds and of the ten per cent price error.               *)

OutcomeForecasts ==
    { [current_price |-> Some(200), predicted_direction |-> d,
       closes |-> <<Some(220)>>] : d \in {"bullish", "bearish", "neutral"} }
    \cup
    { [current_price |-> Some(100), predicted_direction |-> "bullish",
       closes |-> <<Some(105)>>],
      [current_price |-> Some(0), predicted_direction |-> "neutral",
       closes |-> <<Some(220)>>],
      [current_price |-> Some(200), predicted_direction |-> "bearish",
       closes |-> <<Some(0)>>] }

OutcomePrices == {0, 103, 198, 199, 200, 201, 202}

OutcomeTick == Tick(MinutesPerDay, MaxOutcomeDays * MinutesPerDay)

OutcomeLog ==
    \E f \in OutcomeForecasts :
        /\ Len(prediction_logs) + Len(f.closes) <= MaxOutcomeRows
        /\ prediction_logs' =
              prediction_logs \o LogEntries("sp500", PredictionData(clock, f), clock)
        /\ last' = [op |-> "log"]
        /\ UNCHANGED <<clock, seriesVars, raceVars, evaluator, logger,
                       sentiment_history, newsVars>>

\* plain floats differ from numpy floats only where a price is zero
OutcomeEvaluate ==
    \E p \in OutcomePrices, np \in BOOLEAN :
        /\ np \/ p = 0
        /\ Evaluate("sp500", [d \in { <<day>> : day \in 1..MaxOutcomeDays } |-> p], np)

NextOutcome == OutcomeTick \/ OutcomeLog \/ OutcomeEvaluate

SpecOutcome == Init /\ [][NextOutcome]_vars

----------------------------------------------------------------------------
(* Sentiment snapshots: save_sentiment_history and get_cached_sentiment.   *)
(* analyzed_at is stamped by the database (default now()), whose clock may *)
(* lag behind the clock is_cache_valid reads.                              *)

\* variant: ORDER BY analyzed_at, ascending
OldestSentiment(table, index_id) ==
    { i \in DOMAIN table :
        /\ table[i].index_id = Upper(index_id)
        /\ \A j \in DOMAIN table :
              table[j].index_id = Upper(index_id) =>
                  table[j].analyzed_at >= table[i].analyzed_at }

\* the rows .order_by(desc(analyzed_at)).first() may return: among rows of
\* equal analyzed_at the database is free to choose
LatestSentiment(table, index_id) ==
    { i \in DOMAIN table :
        /\ table[i].index_id = Upper(index_id)
        /\ \A j \in DOMAIN table :
              table[j].index_id = Upper(index_id) =>
                  table[j].analyzed_at <= table[i].analyzed_at }

\* what get_cached_sentiment may return
get_cached_sentiment(table, index_id, now) ==
    IF LatestSentiment(table, index_id) = {} THEN {None}
    ELSE { IF ~is_cache_valid(Some(table[i].analyzed_at), "sentiment", now) THEN None
           ELSE Some([score |-> table[i].sentiment_score,
                      label |-> table[i].overall_sentiment,
                      cached_at |-> IsoFormat(table[i].analyzed_at)]) :
           i \in LatestSentiment(table, index_id) }

SaveSentimentHistory ==
    \E index_id \in LedgerIndexIds, label \in {"positive", "negative"},
       lag \in {0, 15} :
        /\ Len(sentiment_history) < MaxSentimentRows
        /\ lag <= clock
        /\ sentiment_history' =
              Append(sentiment_history,
                     SentimentRow(index_id, Upper(index_id),
                                  [label |-> label,
                                   score |-> IF label = "positive" THEN 1 ELSE 0 - 1],
                                  clock - lag))
        /\ last' = [op |-> "save_sentiment", index_id |-> index_id]
        /\ UNCHANGED <<clock, seriesVars, raceVars, ledgerVars, newsVars>>

GetCachedSentiment ==
    \E index_id \in LedgerIndexIds :
        \E result \in get_cached_sentiment(sentiment_history, index_id, clock) :
            /\ last' = [op |-> "get_sentiment", index_id |-> index_id,
                        now |-> clock, result |-> result]
            /\ UNCHANGED <<clock, seriesVars, raceVars, ledgerVars, sentiment_history, newsVars>>

SpecSentiment ==
    Init /\ [][Tick(15, MaxSentimentClock) \/ SaveSentimentHistory
                  \/ GetCachedSentiment]_vars

----------------------------------------------------------------------------
(* The numbers of the forecast: indicators, signal, per-day predictions.   *)
(* Rationals are pairs <<numerator, denominator>>.                         *)

\* a * b, the factors reduced crosswise first; 0 times anything is 0
RatMul(a, b) ==
    IF a[1] = 0 THEN <<0, 1>>
    ELSE LET x == Reduce(<<a[1], b[2]>>)
             y == Reduce(<<b[1], a[2]>>)
         IN Reduce(<<x[1] * y[1], x[2] * y[2]>>)

\* round(q * scale) to the nearest integer (a tie goes up; Python rounds the
\* binary value, for which a tie is a matter of representation)
RoundScaled(q, scale) ==
    LET r == RatMul(q, <<scale, 1>>)
    IN (2 * r[1] + r[2]) \div (2 * r[2])

RECURSIVE SumOf(_, _, _)
\* s[a] + ... + s[b]
SumOf(s, a, b) == IF a > b THEN 0 ELSE s[a] + SumOf(s, a + 1, b)

\* np.diff(closes)[-period:], the last `period` differences
LastDeltas(closes, period) ==
    [i \in 1..period |-> closes[Len(closes) - period + i]
                            - closes[Len(closes) - period + i - 1]]

\* variant: the losses keep their sign
calculate_rsi_signed_losses(closes, period) ==
    IF Len(closes) < period + 1 THEN <<50, 1>>
    ELSE LET deltas == LastDeltas(closes, period)
             gain == SumOf([i \in 1..period |->
                              IF deltas[i] > 0 THEN deltas[i] ELSE 0], 1, period)
             loss == SumOf([i \in 1..period |->
                              IF deltas[i] < 0 THEN deltas[i] ELSE 0], 1, period)
         IN IF loss = 0 THEN <<100, 1>>
            ELSE IF gain + loss = 0 THEN <<0 - 100, 1>>
            ELSE Reduce(<<100 * gain, gain + loss>>)

\* 100 - 100 / (1 + avg_gain / avg_loss) is 100 * gain / (gain + loss)
calculate_rsi(closes, period) ==
    IF Len(closes) < period + 1 THEN <<50, 1>>
    ELSE LET deltas == LastDeltas(closes, period)
             gain == SumOf([i \in 1..period |->
                              IF deltas[i] > 0 THEN deltas[i] ELSE 0], 1, period)
             loss == SumOf([i \in 1..period |->
                              IF deltas[i] < 0 THEN 0 - deltas[i] ELSE 0], 1, period)
         IN IF loss = 0 THEN <<100, 1>>
            ELSE Reduce(<<100 * gain, gain + loss>>)

\* max(min(q, 1), -1)
Clamp(q) ==
    IF q[1] > q[2] THEN <<1, 1>> ELSE IF q[1] < 0 - q[2] THEN <<0 - 1, 1>> ELSE q

\* calculate_technical_indicators: trend and momentum in ten-thousandths,
\* rsi in hundredths.  Under 20 closes the result has no rsi, which
\* generate_prediction reads as 50
calculate_technical_indicators(closes) ==
  IF Len(closes) < 20 THEN [trend |-> 0, momentum |-> 0, rsi |-> 5000]
  ELSE
    LET n == Len(closes)
        sum_5 == SumOf(closes, n - 4, n)
        sum_20 == SumOf(closes, n - 19, n)
        trend == IF sum_20 = 0 THEN <<0, 1>>
                 ELSE Clamp(Reduce(<<(4 * sum_5 - sum_20) * 10, sum_20>>))
        momentum == IF closes[n - 4] = 0 THEN <<0, 1>>
                    ELSE Clamp(Reduce(<<(closes[n] - closes[n - 4]) * 5, closes[n - 4]>>))
    IN [trend |-> RoundScaled(trend, 10000),
        momentum |-> RoundScaled(momentum, 10000),
        rsi |-> RoundScaled(calculate_rsi(closes, 14), 100)]

\* variant: only the overbought side is dampened
CombinedSignalOverboughtOnly(technicals, score) ==
    LET undampened == 6 * (4 * technicals.trend + 6 * technicals.momentum) + 40 * score
    IN [undampened |-> <<undampened, 1000000>>,
        combined_signal |-> IF technicals.rsi > 7000
                            THEN <<7 * undampened, 10000000>>
                            ELSE <<undampened, 1000000>>]

\* lines 187-197: tech_signal * 0.6 + sent_signal * 0.4, times 0.7 when the
\* rsi is above 70 or below 30.  score: sentiment["score"] in ten-thousandths
CombinedSignal(technicals, score) ==
    LET undampened == 6 * (4 * technicals.trend + 6 * technicals.momentum) + 40 * score
    IN [undampened |-> <<undampened, 1000000>>,
        combined_signal |-> IF technicals.rsi > 7000 \/ technicals.rsi < 3000
                            THEN <<7 * undampened, 10000000>>
                            ELSE <<undampened, 1000000>>]

\* 20 daily closes: rising, falling, flat, and three whose rsi is 70, 30
\* and 71.43; and a history too short for the indicators
SignalHistories ==
    { <<100, 101, 102>>, [i \in 1..20 |-> 99 + i], [i \in 1..20 |-> 120 - i], [i \in 1..20 |-> 100],
      <<100, 100, 100, 100, 100, 100, 101, 102, 103, 104, 105, 106, 107, 106, 105,
        104, 104, 104, 104, 104>>,
      <<100, 100, 100, 100, 100, 100, 99, 98, 97, 96, 95, 94, 93, 94, 95,
        96, 96, 96, 96, 96>>,
      <<100, 100, 100, 100, 100, 100, 101, 102, 103, 104, 105, 104, 103, 103, 103,
        103, 103, 103, 103, 103>> }

RECURSIVE Pow(_, _)
Pow(b, e) == IF e = 0 THEN 1 ELSE b * Pow(b, e - 1)

RECURSIVE CumulativeChange(_, _, _)
\* cumulative_change after pass i of the loop: the sum over the passes of
\* base_change * 0.9 ** i + noise * 100
CumulativeChange(base_change, noise, i) ==
    IF i = 0 THEN <<0, 1>>
    ELSE RatAdd(CumulativeChange(base_change, noise, i - 1),
                RatAdd(RatMul(base_change, <<Pow(9, i), Pow(10, i)>>),
                       RatMul(noise[i], <<100, 1>>)))

\* variant: round(predicted_price), to whole units
PredictedCloseWhole(current_price, cumulative_change) ==
    100 * RoundScaled(RatMul(current_price,
                             RatAdd(<<1, 1>>, RatMul(cumulative_change, <<1, 100>>))), 1)

\* round(current_price * (1 + cumulative_change / 100), 2), in hundredths
PredictedClose(current_price, cumulative_change) ==
    RoundScaled(RatMul(current_price,
                       RatAdd(<<1, 1>>, RatMul(cumulative_change, <<1, 100>>))), 100)

\* lines 207-236: the per-day list.  max_daily_change stands for
\* volatility / sqrt(252) * 2, noise[i] for the draw of pass i
ForecastDays(current_price, combined_signal, max_daily_change, noise, days, now) ==
    LET base_change == RatMul(RatMul(combined_signal, max_daily_change), <<100, 1>>)
    IN Predictions(now,
                   [i \in 1..days |->
                       Some(PredictedClose(current_price,
                                           CumulativeChange(base_change, noise, i)))])

\* the draws of np.random.normal(0, max_daily_change * 0.3): nothing but 0
\* when the deviation is 0
NoiseDraws(max_daily_change) ==
    IF max_daily_change[1] = 0 THEN {<<0, 1>>}
    ELSE {<<0 - 6, 1000>>, <<0, 1>>, <<3, 1000>>}

\* generate_prediction from line 207 on: long horizons with a zero signal
\* and no noise, short ones with any signal and noise
ForecastLoop ==
    \E combined_signal \in {<<0 - 1, 2>>, <<0, 1>>, <<1, 2>>},
       max_daily_change \in {<<0, 1>>, <<1, 100>>}, days \in 1..MaxHorizon :
        \E noise \in [1..days -> NoiseDraws(max_daily_change)] :
            /\ \/ days <= MaxNoisyHorizon
               \/ combined_signal[1] = 0 /\ \A i \in 1..days : noise[i][1] = 0
            /\ last' = [op |-> "forecast", current_price |-> <<10025, 100>>,
                        combined_signal |-> combined_signal, noise |-> noise,
                        days |-> days,
                        predictions |->
                            ForecastDays(<<10025, 100>>, combined_signal,
                                         max_daily_change, noise, days, clock)]
            /\ UNCHANGED <<clock, seriesVars, raceVars, ledgerVars, sentiment_history, newsVars>>

\* lines 199-205: the direction of the forecast
Direction(combined_signal) ==
    IF 10 * combined_signal[1] > combined_signal[2] THEN "bullish"
    ELSE IF 10 * combined_signal[1] < 0 - combined_signal[2] THEN "bearish"
    ELSE "neutral"

\* a saved forecast request from line 199 on: the direction from the signal,
\* the per-day prices from the signal and the draws, and log_prediction
\* storing both.  Prices are in hundredths.
LogForecast ==
    \E combined_signal \in {<<0 - 1, 2>>, <<0, 1>>, <<1, 10>>, <<1, 2>>},
       max_daily_change \in {<<0, 1>>, <<1, 100>>}, days \in 1..MaxNoisyHorizon :
        \E noise \in [1..days -> NoiseDraws(max_daily_change)] :
            /\ Len(prediction_logs) + days <= MaxDirectionRows
            /\ prediction_logs' =
                  prediction_logs \o
                  LogEntries("sp500",
                             [current_price |-> Some(10025),
                              prediction_days |-> days,
                              predicted_direction |-> Direction(combined_signal),
                              predictions |->
                                  ForecastDays(<<10025, 100>>, combined_signal,
                                               max_daily_change, noise, days, clock)],
                             clock)
            /\ last' = [op |-> "log", combined_signal |-> combined_signal,
                        noise |-> noise]
            /\ UNCHANGED <<clock, seriesVars, raceVars, evaluator, logger,
                           sentiment_history, newsVars>>

SpecDirection == Init /\ [][LogForecast]_vars

\* generate_prediction up to line 197
ForecastSignal ==
    \E closes \in SignalHistories, score \in {0 - 5000, 0, 5000} :
        /\ last' = [op |-> "signal", closes |-> closes, score |-> score,
                    technicals |-> calculate_technical_indicators(closes),
                    signal |-> CombinedSignal(calculate_technical_indicators(closes),
                                              score)]
        /\ UNCHANGED <<clock, seriesVars, raceVars, ledgerVars, sentiment_history, newsVars>>

RsiCall ==
    \E n \in 0..MaxRsiCloses, period \in {1, 2} :
        \E closes \in [1..n -> {0, 1, 2}] :
            /\ last' = [op |-> "rsi", closes |-> closes, period |-> period,
                        rsi |-> calculate_rsi(closes, period)]
            /\ UNCHANGED <<clock, seriesVars, raceVars, ledgerVars, sentiment_history, newsVars>>

SpecSignal == Init /\ [][ForecastSignal \/ ForecastLoop \/ RsiCall]_vars

----------------------------------------------------------------------------
(* One key and a neighbour of it written again and again in a store that   *)
(* earlier requests have filled: a generation under each of three keys that *)
(* differ from the key in the index, the period or the interval, an entry  *)
(* in the ledger and a sentiment snapshot.                                 *)

FrameKey == <<"sp500", "1mo", "1d">>
FrameNeighbours == << <<"dow", "1mo", "1d">>, <<"sp500", "3mo", "1d">>,
                      <<"SP500", "1mo", "1h">> >>

\* the rows of the neighbours, each written once at minute 0
FrameRows ==
    LET rows(i) == NewEntries(FrameNeighbours[i][1], FrameNeighbours[i][2],
                              FrameNeighbours[i][3],
                              CHOOSE d \in EvictSeriesFor(FrameNeighbours[i][3]) : TRUE,
                              0, 2 * i - 1)
    IN rows(1) \o rows(2) \o rows(3)

InitFrame ==
    /\ clock = 0
    /\ cached_index_data = FrameRows
    /\ next_id = Len(FrameRows) + 1
    /\ writes = 0
    /\ batches = { {2 * i - 1, 2 * i} : i \in 1..3 }
    /\ last = [op |-> "none"]
    /\ reader = Idle
    /\ writer = [w \in Writers |-> Idle]
    /\ prediction_logs =
          LogEntries("sp500",
                     PredictionData(0, CHOOSE f \in StatsForecasts :
                                           f.predicted_direction = "bullish"), 0)
    /\ evaluator = [e \in Evaluators |-> Idle]
    /\ logger = Idle
    /\ sentiment_history =
          <<SentimentRow("sp500", "SP500", [label |-> "neutral", score |-> 0], 0)>>
    /\ NEWS_API_KEY = ""
    /\ _news_cache = <<>>

FrameTick == Tick(1, MaxFrameClock)

\* cache_index_data for the key or for its neighbour of another interval
FrameWrite ==
    \E k \in {FrameKey, FrameNeighbours[3]} :
        \E data \in EvictSeriesFor(k[3]) :
            WriteSeries(k[1], k[2], k[3], data, MaxFrameWrites)

SpecFrame == InitFrame /\ [][FrameTick \/ FrameWrite]_vars

----------------------------------------------------------------------------
(* One index written under three spellings of its id into the three tables. *)

CaseIds == {"sp500", "Sp500", "SP500"}

CaseWrite ==
    \E index_id \in CaseIds : \E data \in EvictSeriesFor("1d") :
        WriteSeries(index_id, "1mo", "1d", data, MaxCaseWrites)

\* save_sentiment_history
CaseSave ==
    \E index_id \in CaseIds :
        /\ Len(sentiment_history) < MaxCaseRows
        /\ sentiment_history' =
              Append(sentiment_history,
                     SentimentRow(index_id, "S&P 500",
                                  [label |-> "positive", score |-> 1], clock))
        /\ last' = [op |-> "save_sentiment", index_id |-> index_id, now |-> clock]
        /\ UNCHANGED <<clock, seriesVars, raceVars, ledgerVars, newsVars>>

CaseLog ==
    \E index_id \in CaseIds :
        \E f \in { g \in StatsForecasts : g.predicted_direction = "bullish" } :
            LogPrediction(index_id, f)

CaseEvaluate ==
    \E index_id \in CaseIds, actual_prices \in RacePriceMaps :
        Evaluate(index_id, actual_prices, TRUE)

SpecCase ==
    Init /\ [][Tick(MinutesPerDay, MaxCaseDays * MinutesPerDay) \/ CaseWrite
               \/ CaseSave \/ CaseLog \/ CaseEvaluate]_vars

----------------------------------------------------------------------------
(* fetch_news and its in-process cache (app/services/news_service.py).     *)
(* Timestamps are seconds: the clock's minutes times 60.  The cache key     *)
(* f"{query}_{page_size}" is the pair <<query, page_size>>: the digits      *)
(* after the last underscore are the page size, so the string names one     *)
(* pair only.                                                              *)

_cache_ttl == 300

Timestamp(now) == now * 60

\* _get_mock_news(query): made-up articles about the query, dated from now;
\* the first of the eight stands for the list
MockNews(query, now) ==
    <<[title |-> query, url |-> "https://example.com/news/0", publishedAt |-> now]>>

\* what the try block may meet: a 200 with articles, another status, a
\* request that raises, a 200 whose body response.json() cannot parse
Upstreams(query, now) ==
    { [raises |-> FALSE, status |-> 200,
       articles |-> <<[title |-> query, url |-> "https://newsapi.org/a",
                       publishedAt |-> now]>>],
      [raises |-> FALSE, status |-> 429],
      [raises |-> TRUE, status |-> 0],
      [raises |-> TRUE, status |-> 200] }

\* variant: an entry is still served at the instant it turns 300 seconds old
CacheHitInclusive(cache, cache_key, now) ==
    /\ cache_key \in DOMAIN cache
    /\ Timestamp(now) - cache[cache_key].timestamp <= _cache_ttl

\* lines 28-32: the key is cached and the entry is younger than _cache_ttl
CacheHit(cache, cache_key, now) ==
    /\ cache_key \in DOMAIN cache
    /\ Timestamp(now) - cache[cache_key].timestamp < _cache_ttl

\* variant: the fallback is cached as well
fetch_news_caching_mock(cache, api_key, query, page_size, upstream, now) ==
    LET cache_key == <<query, page_size>>
        store(articles) ==
            [k \in DOMAIN cache \cup {cache_key} |->
                IF k = cache_key
                THEN [articles |-> articles, timestamp |-> Timestamp(now)]
                ELSE cache[k]]
    IN IF CacheHit(cache, cache_key, now)
       THEN [articles |-> cache[cache_key].articles, source |-> "cache",
             cache |-> cache]
       ELSE IF api_key = "" \/ api_key = "your_newsapi_key_here"
       THEN [articles |-> MockNews(query, now), source |-> "mock", cache |-> cache]
       ELSE IF ~upstream.raises /\ upstream.status = 200
       THEN [articles |-> upstream.articles, source |-> "upstream",
             cache |-> store(upstream.articles)]
       ELSE [articles |-> MockNews(query, now), source |-> "mock",
             cache |-> store(MockNews(query, now))]

\* fetch_news: what it returns, where that came from, and _news_cache after
fetch_news(cache, api_key, query, page_size, upstream, now) ==
    LET cache_key == <<query, page_size>>
        store(articles) ==
            [k \in DOMAIN cache \cup {cache_key} |->
                IF k = cache_key
                THEN [articles |-> articles, timestamp |-> Timestamp(now)]
                ELSE cache[k]]
    IN IF CacheHit(cache, cache_key, now)
       THEN [articles |-> cache[cache_key].articles, source |-> "cache",
             cache |-> cache]
       ELSE IF api_key = "" \/ api_key = "your_newsapi_key_here"
       THEN [articles |-> MockNews(query, now), source |-> "mock", cache |-> cache]
       ELSE IF ~upstream.raises /\ upstream.status = 200
       THEN [articles |-> upstream.articles, source |-> "upstream",
             cache |-> store(upstream.articles)]
       ELSE [articles |-> MockNews(query, now), source |-> "mock", cache |-> cache]

\* the process starts with whatever key its environment holds
InitNews ==
    /\ clock = 0
    /\ cached_index_data = <<>>
    /\ next_id = 1
    /\ writes = 0
    /\ batches = {}
    /\ last = [op |-> "none"]
    /\ reader = Idle
    /\ writer = [w \in Writers |-> Idle]
    /\ prediction_logs = <<>>
    /\ evaluator = [e \in Evaluators |-> Idle]
    /\ logger = Idle
    /\ sentiment_history = <<>>
    /\ NEWS_API_KEY \in {"", "your_newsapi_key_here", "k3y"}
    /\ _news_cache = <<>>

NewsTick ==
    /\ clock < MaxNewsClock
    /\ clock' = clock + 1
    /\ UNCHANGED <<seriesVars, last, raceVars, ledgerVars, sentiment_history, newsVars>>

FetchNews ==
    \E call \in {<<"Nifty 50", 10>>, <<"Nifty 50", 5>>, <<"Sensex", 10>>} :
        \E upstream \in Upstreams(call[1], clock) :
            LET result == fetch_news(_news_cache, NEWS_API_KEY, call[1], call[2],
                                     upstream, clock)
            IN /\ _news_cache' = result.cache
               /\ last' = [op |-> "news", query |-> call[1], page_size |-> call[2],
                           now |-> clock, upstream |-> upstream,
                           articles |-> result.articles, source |-> result.source]
               /\ UNCHANGED <<clock, seriesVars, raceVars, ledgerVars,
                              sentiment_history, NEWS_API_KEY>>

SpecNews == InitNews /\ [][NewsTick \/ FetchNews]_vars

----------------------------------------------------------------------------
(* Retention of generations *)

Keys == { <<Upper(i), p, v>> : i \in IndexIds, p \in Periods, v \in Intervals }

GenerationsOf(table, k) == Generations(table, k[1], k[2], k[3])

GenerationIds(table, k, g) ==
    { r.id : r \in { x \in Range(table) :
                       KeyMatches(x, k[1], k[2], k[3]) /\ x.fetched_at = g } }

\* C1: every (index_id, period, interval) key holds at most 3 distinct
\* generations (distinct fetched_at values) after any sequence of write_series
\* calls, so that after more than 3 writes on a key exactly 3 remain.
C1_AtMostThreeGenerations ==
    \A k \in Keys : Cardinality(GenerationsOf(cached_index_data, k)) <= 3

\* C2: eviction in write_series is FIFO by fetched_at and by whole generation:
\* every generation a call discards is older than every generation it retains,
\* the generation just written is retained, and a generation that stays keeps
\* all of its rows.
C2_FifoWholeGeneration ==
    [][\A k \in Keys :
          LET before == GenerationsOf(cached_index_data, k)
              after == GenerationsOf(cached_index_data', k)
          IN /\ \A g \in before \ after : \A h \in after : g < h
             /\ \A g \in before \cap after :
                   GenerationIds(cached_index_data, k, g)
                       \subseteq GenerationIds(cached_index_data', k, g)
             /\ (/\ writes' = writes + 1
                 /\ k = <<Upper(last'.index_id), last'.period, last'.interval>>)
                   => last'.now \in after]_vars

\* a write that discarded a generation while three older-or-equal ones stayed
C2_Witness ==
    /\ last.op = "write"
    /\ last.evicted # {}
    /\ Cardinality(Generations(cached_index_data, last.index_id, last.period,
                               last.interval)) >= 3

----------------------------------------------------------------------------
(* Round trip and freshness *)

DateLess(a, b) ==
    \/ a[1] < b[1]
    \/ a[1] = b[1] /\ Len(a) = 2 /\ Len(b) = 2 /\ a[2] < b[2]

Count(s, x) == Cardinality({ i \in DOMAIN s : s[i] = x })

\* C3: write_series followed immediately by read_series with the identical key
\* returns exactly the written points: as many points, the same dates and
\* values, in ascending date order.
C3_RoundTrip ==
    (last.op = "read" /\ last.wrote # None) =>
        /\ last.result # None
        /\ LET got == last.result[1]
               put == last.wrote[1]
           IN /\ Len(got) = Len(put)
              /\ \A x \in Range(got) \cup Range(put) : Count(got, x) = Count(put, x)
              /\ \A i, j \in DOMAIN got : i < j => ~DateLess(got[j].date, got[i].date)

ClaimedTtl(interval) ==
    IF interval \in {"1m", "5m", "15m", "30m", "1h"} THEN 15 ELSE 60

\* C4: read_series returns the points of the generation with the greatest
\* fetched_at of the key if and only if now < fetched_at + TTL (15 minutes for
\* 1m, 5m, 15m, 30m, 1h and 60 minutes otherwise); with no generation or a
\* stale latest generation it returns absent, never an older generation.
C4_FreshLatestOnly ==
    last.op = "read" =>
        LET gens == Generations(cached_index_data, last.index_id, last.period,
                                last.interval)
            newest == CHOOSE g \in gens : \A h \in gens : h <= g
            rows == { r \in Range(cached_index_data) :
                        /\ KeyMatches(r, last.index_id, last.period, last.interval)
                        /\ r.fetched_at = newest }
        IN IF gens # {} /\ last.now < newest + ClaimedTtl(last.interval)
           THEN /\ last.result # None
                /\ last.ids = { r.id : r \in rows }
                /\ Len(last.result[1]) = Cardinality(rows)
                /\ Range(last.result[1]) =
                      { [date |-> FormatPointDate(r.date, last.interval),
                         close |-> r.close] : r \in rows }
           ELSE last.result = None

\* a miss at the very minute the newer of two generations expires
C4_Witness ==
    /\ last.op = "read"
    /\ last.result = None
    /\ LET gens == Generations(cached_index_data, last.index_id, last.period,
                               last.interval)
       IN /\ Cardinality(gens) = 2
          /\ \E g \in gens : /\ \A h \in gens : h <= g
                             /\ last.now = g + ClaimedTtl(last.interval)

----------------------------------------------------------------------------
(* Reads racing writes *)

\* C5: a read_series call whose two queries are interleaved with write_series
\* commits on its key returns a miss or the complete rows of exactly one write
\* call: never rows of two calls, never a partial or empty set.
C5_NoTornRead ==
    (last.op = "read" /\ last.raced /\ last.result # None) => last.ids \in batches

\* the part of C5 that does not rest on two calls reading the same clock
C5_NeverEmpty ==
    (last.op = "read" /\ last.raced /\ last.result # None) => last.ids # {}

----------------------------------------------------------------------------
(* The prediction ledger *)

Evaluated(entry) == entry.actual_price # None

\* C6: when two evaluate calls for the same index run concurrently,
\* interleaved at select-pending, set outcome fields and commit, a call never
\* overwrites actual_price, was_correct, accuracy_score or evaluated_at that
\* the other call has already set: every entry is evaluated at most once.
C6_TransitionOnce ==
    [][\A i \in DOMAIN prediction_logs :
          Evaluated(prediction_logs[i]) =>
              \A c \in {"actual_price", "was_correct", "accuracy_score",
                         "evaluated_at"} :
                  prediction_logs'[i][c] = prediction_logs[i][c]]_vars

\* C7: evaluate is idempotent: with the clock held fixed, a second call with
\* the same index and the same mapping changes no field of any entry.
C7_Idempotent ==
    [][(last'.op = "evaluate" /\ last'.repeat) =>
          prediction_logs' = prediction_logs]_vars

\* the same call made twice in a row, at a clock reading at which an entry of
\* its index was evaluated with the price its mapping gives
C7_Witness ==
    /\ last.op = "evaluate"
    /\ last.repeat
    /\ ~last.raised
    /\ \E i \in DOMAIN prediction_logs :
          LET entry == prediction_logs[i]
          IN /\ entry.index_id = Upper(last.index_id)
             /\ entry.evaluated_at = Some(clock)
             /\ FormatDay(entry.target_date) \in DOMAIN last.actual_prices
             /\ entry.actual_price =
                   Some(last.actual_prices[FormatDay(entry.target_date)])

\* C8: across any sequential run of log and evaluate calls, with whatever
\* mappings, once an entry has actual_price set none of its outcome fields
\* ever changes again, and the entry stays evaluated.
C8_EvaluatedIsFinal ==
    [][\A i \in DOMAIN prediction_logs :
          Evaluated(prediction_logs[i]) =>
              /\ i \in DOMAIN prediction_logs'
              /\ \A c \in OutcomeColumns :
                    prediction_logs'[i][c] = prediction_logs[i][c]]_vars

\* an evaluate call whose mapping gives another price for the date of an
\* entry of its index that is already evaluated; the entry kept its price
C8_Witness ==
    /\ last.op = "evaluate"
    /\ ~last.raised
    /\ \E i \in DOMAIN prediction_logs :
          LET entry == prediction_logs[i]
          IN /\ entry.index_id = Upper(last.index_id)
             /\ entry.target_date <= clock
             /\ Evaluated(entry)
             /\ FormatDay(entry.target_date) \in DOMAIN last.actual_prices
             /\ entry.actual_price #
                   Some(last.actual_prices[FormatDay(entry.target_date)])

\* C9: in every reachable ledger state each entry is either Pending, with
\* actual_price, actual_direction, was_correct, accuracy_score and
\* evaluated_at all unset, or Evaluated, with all five set; no entry has only
\* some of them set, whatever its current_price and predicted_price.
C9_AllOrNothing ==
    \A i \in DOMAIN prediction_logs :
        LET entry == prediction_logs[i]
            five == {"actual_price", "actual_direction", "was_correct",
                     "accuracy_score", "evaluated_at"}
        IN \/ \A c \in five : entry[c] = None
           \/ \A c \in five : entry[c] # None

\* C9, amended: each entry is either Pending with every outcome field unset,
\* or has actual_price and evaluated_at both set; then actual_change_percent,
\* actual_direction and was_correct are set exactly when current_price is set
\* and not 0, and accuracy_score exactly when predicted_price is so as well.
C9_PendingOrStamped ==
    \A i \in DOMAIN prediction_logs :
        LET entry == prediction_logs[i]
        IN \/ \A c \in OutcomeColumns : entry[c] = None
           \/ /\ entry.actual_price # None
              /\ entry.evaluated_at # None
              /\ \A c \in {"actual_change_percent", "actual_direction",
                            "was_correct"} :
                    entry[c] # None <=> Truthy(entry.current_price)
              /\ entry.accuracy_score # None <=>
                    (Truthy(entry.current_price) /\ Truthy(entry.predicted_price))

\* an evaluate call has just stamped an entry that has no current price to
\* compare with: it has a price and a time and no verdict
C9_Witness ==
    /\ last.op = "evaluate"
    /\ \E i \in DOMAIN prediction_logs :
          LET entry == prediction_logs[i]
          IN /\ entry.index_id = Upper(last.index_id)
             /\ entry.evaluated_at = Some(clock)
             /\ entry.actual_price # None
             /\ entry.was_correct = None

\* C10: evaluate never transitions an entry whose target_date is later than
\* the current time, even when the mapping has a price for that date; so every
\* evaluated entry has evaluated_at >= target_date.
C10_NotBeforeTarget ==
    /\ [](\A i \in DOMAIN prediction_logs :
            LET entry == prediction_logs[i]
            IN Evaluated(entry) =>
                  /\ entry.evaluated_at # None
                  /\ entry.evaluated_at[1] >= entry.target_date)
    /\ [][\A i \in DOMAIN prediction_logs :
            prediction_logs[i].target_date > clock =>
                prediction_logs'[i] = prediction_logs[i]]_vars

\* an evaluate call whose mapping has a price for the date of an entry of its
\* index that is still in the future; the entry is still pending
C10_Witness ==
    /\ last.op = "evaluate"
    /\ ~last.raised
    /\ \E i \in DOMAIN prediction_logs :
          LET entry == prediction_logs[i]
          IN /\ entry.index_id = Upper(last.index_id)
             /\ entry.target_date > clock
             /\ FormatDay(entry.target_date) \in DOMAIN last.actual_prices
             /\ ~Evaluated(entry)

\* the rows an evaluate call of the index of the latest call loads
LoadedBy(call) == Pending(prediction_logs, call.index_id, clock)

\* C11: an eligible Pending entry whose target_date is missing from
\* actual_prices is left completely unchanged by evaluate, and an evaluate call
\* whose mapping contains that date transitions it to Evaluated.
C11_MissingStaysPresentTransitions ==
    [][(last'.op = "evaluate" /\ clock' = clock) =>
          \A i \in LoadedBy(last') :
              IF FormatDay(prediction_logs[i].target_date)
                     \in DOMAIN last'.actual_prices
              THEN Evaluated(prediction_logs'[i])
              ELSE prediction_logs'[i] = prediction_logs[i]]_vars

\* the part of C11 that does not rest on the division by the actual price:
\* the same, for the calls that do not raise
C11_WhenNotRaised ==
    [][(last'.op = "evaluate" /\ clock' = clock /\ ~last'.raised) =>
          \A i \in LoadedBy(last') :
              IF FormatDay(prediction_logs[i].target_date)
                     \in DOMAIN last'.actual_prices
              THEN Evaluated(prediction_logs'[i])
              ELSE prediction_logs'[i] = prediction_logs[i]]_vars

\* an entry passed over by one call for want of its date
C11_Passed ==
    /\ last.op = "evaluate"
    /\ \E i \in LoadedBy(last) :
          FormatDay(prediction_logs[i].target_date) \notin DOMAIN last.actual_prices

----------------------------------------------------------------------------
(* The forecast request *)

Before(t, a, i) == \E j \in DOMAIN t : j < i /\ t[j] = a
Between(t, a, i, k) == \E j \in DOMAIN t : i < j /\ j < k /\ t[j] = a

\* C12: every forecast request consults the Cache Store (read_series,
\* get_cached_index_data) for price history before any upstream fetch, and a
\* successful non-empty fetch is followed by write_series (cache_index_data)
\* for that key before the forecast is computed.
C12_CacheBeforeUpstream ==
    last.op = "predict" =>
        LET t == last.trace
        IN \A i \in DOMAIN t :
              t[i] = "fetch_index_data" =>
                  /\ Before(t, "get_cached_index_data", i)
                  /\ \A k \in DOMAIN t :
                        t[k] = "calculate_technical_indicators" =>
                            Between(t, "cache_index_data", i, k)

\* C13: given a non-empty price history with fewer than 20 points, the
\* forecast operation still returns a forecast rather than raising an error or
\* reporting unavailable.
C13_ShortHistoryForecast ==
    (/\ last.op = "predict"
     /\ get_index_info(last.index_id) # None
     /\ last.points > 0
     /\ last.points < 20) => last.response = "forecast"

\* C14: when price history is absent or empty (upstream failure or unknown
\* index) the request produces no forecast, the endpoint reports unavailable,
\* and nothing is written to the prediction ledger or the sentiment history.
C14_NoDataNoWrites ==
    [][(/\ last'.op = "predict"
        /\ clock' = clock
        /\ (last'.points = 0 \/ get_index_info(last'.index_id) = None)) =>
          /\ last'.response = "unavailable"
          /\ prediction_logs' = prediction_logs
          /\ sentiment_history' = sentiment_history]_vars

\* a saving request for a known index got nothing from upstream, after an
\* earlier request had logged its forecast
C14_Witness ==
    /\ last.op = "predict"
    /\ last.save_to_history
    /\ get_index_info(last.index_id) # None
    /\ last.points = 0
    /\ last.response = "unavailable"
    /\ prediction_logs # <<>>
    /\ sentiment_history # <<>>

\* C15: if the ledger write or the sentiment-history write that goes with it
\* fails after a forecast was generated, the endpoint still returns that
\* forecast to the caller instead of an error.
C15_LoggingFailureSwallowed ==
    (last.op = "predict" /\ (last.log_fails \/ last.sentiment_fails)) =>
        last.response = "forecast"

\* the ledger rows of the request are in, its sentiment row failed
C15_Witness ==
    /\ last.op = "predict"
    /\ last.sentiment_fails
    /\ last.response = "forecast"
    /\ Len(prediction_logs) > Len(sentiment_history)

----------------------------------------------------------------------------
(* Arithmetic faults *)

\* C16: no operation ends in an uncaught arithmetic fault on a zero or absent
\* denominator; in particular evaluate with an actual price of 0 or a
\* current_price of 0 completes, with a fallback value.
C16_NoArithmeticFault ==
    last.op = "evaluate" => ~last.raised

----------------------------------------------------------------------------
(* Writes seen from other sessions *)

Present == RowIds(cached_index_data)

\* C17: no reader ever observes part of a logical write: the deletions and the
\* inserted points of one write_series call, the per-day entries of one log
\* call and the updates of one evaluate pass each become visible all at once,
\* or not at all when the call fails midway.
C17_WholeWrites ==
    /\ [](\A b \in batches : b \cap Present = {} \/ b \subseteq Present)
    /\ [][LET series == RowIds(cached_index_data') # Present
              logged == Len(prediction_logs') # Len(prediction_logs)
              updated == ~logged /\ prediction_logs' # prediction_logs
          IN /\ series =>
                   \E b \in batches' \ batches : b \subseteq RowIds(cached_index_data')
             /\ logged =>
                   (logger.pc = "adding" /\ prediction_logs' = prediction_logs \o logger.rows)
             /\ updated =>
                   \E e \in Evaluators :
                       /\ evaluator[e].pc = "set"
                       /\ \A i \in DOMAIN evaluator[e].loaded :
                             \A c \in OutcomeColumns :
                                 prediction_logs'[i][c] = evaluator[e].new[i].pred[c]]_vars

\* a whole generation has been pruned, and the two entries of one log call
\* were evaluated in one pass
C17_Witness ==
    /\ \E b \in batches : b \cap Present = {}
    /\ Len(prediction_logs) = 2
    /\ prediction_logs[1].evaluated_at # None
    /\ prediction_logs[1].evaluated_at = prediction_logs[2].evaluated_at

\* C18: the rows one cache_index_data call inserted carry one fetched_at, and
\* rows of the same key that two different calls inserted never carry the
\* same fetched_at, also when both calls read the same clock value
C18_OneGenerationPerCall ==
    \A i, j \in DOMAIN cached_index_data :
        LET a == cached_index_data[i]
            b == cached_index_data[j]
        IN (/\ a.index_id = b.index_id
            /\ a.period = b.period
            /\ a.interval = b.interval)
              => ((a.fetched_at = b.fetched_at)
                     <=> (\E call \in batches : a.id \in call /\ b.id \in call))


\* C19: is_cache_valid is monotonic in the clock: for a fixed timestamp and
\* cache type, a call that answers True would answer True at every earlier
\* time; it answers True at every time strictly before fetched_at + ttl and
\* at no time from fetched_at + ttl onward; a missing timestamp is never valid
C19_FreshUntilExpiry ==
    last.op = "valid" =>
        IF last.fetched_at = None THEN ~last.valid
        ELSE /\ last.valid <=>
                   last.now < last.fetched_at[1] + CACHE_TTL(last.cache_type)
             /\ last.valid =>
                   \A earlier \in 0..last.now :
                       is_cache_valid(last.fetched_at, last.cache_type, earlier)

\* a call at the very minute the intraday TTL runs out, the timestamp not at
\* the origin of the clock
C19_Witness ==
    /\ last.op = "valid"
    /\ last.fetched_at = Some(2)
    /\ last.cache_type = "intraday_data"
    /\ last.now = 2 + 15
    /\ ~last.valid

\* C20: a log of a forecast inserts exactly one Pending entry per per-day
\* prediction (horizon_days entries, with target dates forecast date + 1 ...
\* forecast date + horizon_days) and never updates, merges or removes the
\* entries already there, also when their target dates overlap the new ones
C20_OneEntryPerDay ==
    last.op = "relog" =>
        /\ Len(prediction_logs) = Len(last.old) + last.days
        /\ SubSeq(prediction_logs, 1, Len(last.old)) = last.old
        /\ \A i \in 1..last.days :
              LET entry == prediction_logs[Len(last.old) + i]
              IN /\ entry.index_id = Upper(last.index_id)
                 /\ ~Evaluated(entry)
                 /\ entry.target_date =
                       (last.requested_at \div MinutesPerDay + i) * MinutesPerDay

\* the same with the target dates left aside: one Pending entry per day of
\* the horizon, the earlier entries untouched
C20_AppendsOnly ==
    last.op = "relog" =>
        /\ Len(prediction_logs) = Len(last.old) + last.days
        /\ SubSeq(prediction_logs, 1, Len(last.old)) = last.old
        /\ \A i \in 1..last.days : ~Evaluated(prediction_logs[Len(last.old) + i])

\* a second forecast logged next to a first one for the same target date
C20_Overlap ==
    /\ last.op = "relog"
    /\ \E i \in 1..Len(last.old), j \in (Len(last.old) + 1)..Len(prediction_logs) :
          /\ prediction_logs[i].target_date = prediction_logs[j].target_date
          /\ prediction_logs[i].prediction_date # prediction_logs[j].prediction_date

\* the entries of an index that have an actual price
EvaluatedOf(index_id) ==
    { i \in DOMAIN prediction_logs :
        /\ prediction_logs[i].index_id = Upper(index_id)
        /\ Evaluated(prediction_logs[i]) }

\* C21: accuracy statistics for an index without Evaluated entries (no
\* entries at all, or only Pending ones) are the explicit no-data result with
\* a total of 0, and nothing is divided
C21_NoDataNoDivision ==
    (last.op = "accuracy" /\ EvaluatedOf(last.index_id) = {}) =>
        /\ ~last.result.raised
        /\ last.result.total_predictions = 0
        /\ last.result.accuracy = None
        /\ last.result.divisions = 0

\* statistics asked for an index whose only entries are Pending, while the
\* other index has an entry with a verdict
C21_Witness ==
    /\ last.op = "accuracy"
    /\ EvaluatedOf(last.index_id) = {}
    /\ \E i \in DOMAIN prediction_logs :
          prediction_logs[i].index_id = Upper(last.index_id)
    /\ \E i \in DOMAIN prediction_logs : prediction_logs[i].was_correct # None
    /\ last.result = NoData

\* the entries of an index that have a verdict
JudgedOf(index_id) ==
    { i \in DOMAIN prediction_logs :
        /\ prediction_logs[i].index_id = Upper(index_id)
        /\ prediction_logs[i].was_correct # None }

\* C22: the accuracy statistics of an index are computed over exactly its
\* Evaluated entries: total is the number of its entries with actual_price
\* set, correct the number of those with was_correct true (so correct <=
\* total), and direction_accuracy = correct / total * 100; with no such entry
\* the result is the no-data one
C22_OverEvaluated ==
    last.op = "accuracy" =>
        IF EvaluatedOf(last.index_id) = {} THEN last.result = NoData
        ELSE /\ last.result # NoData
             /\ last.result.total_predictions = Cardinality(EvaluatedOf(last.index_id))
             /\ last.result.correct_predictions =
                   Cardinality({ i \in EvaluatedOf(last.index_id) :
                                   prediction_logs[i].was_correct = Some(TRUE) })
             /\ last.result.correct_predictions <= last.result.total_predictions
             /\ last.result.direction_accuracy * last.result.total_predictions =
                   last.result.correct_predictions * 100 * 100

\* C22 as the code has it: the statistics are computed over exactly the
\* entries of the index that have a verdict (was_correct set: the Evaluated
\* entries whose current_price is set and nonzero); total is their number,
\* correct the number of those with was_correct true, and direction_accuracy
\* is correct / total * 100 rounded to two decimals; with no such entry the
\* result is the no-data one
C22_OverJudged ==
    last.op = "accuracy" =>
        IF JudgedOf(last.index_id) = {} THEN last.result = NoData
        ELSE /\ last.result # NoData
             /\ last.result.total_predictions = Cardinality(JudgedOf(last.index_id))
             /\ last.result.correct_predictions =
                   Cardinality({ i \in JudgedOf(last.index_id) :
                                   prediction_logs[i].was_correct = Some(TRUE) })
             /\ last.result.correct_predictions <= last.result.total_predictions
             /\ 2 * Abs(last.result.direction_accuracy * last.result.total_predictions
                          - last.result.correct_predictions * 100 * 100)
                   <= last.result.total_predictions
             /\ JudgedOf(last.index_id) \subseteq EvaluatedOf(last.index_id)

\* statistics over two entries of one index, one right and one wrong, while
\* nothing else is in the ledger
C22_Witness ==
    /\ last.op = "accuracy"
    /\ last.result # NoData
    /\ last.result.total_predictions = 2
    /\ last.result.correct_predictions = 1
    /\ last.result.direction_accuracy = 50 * 100

\* C23: for an entry evaluated with a nonzero current_price,
\* actual_change_percent = (actual - current_price) / current_price * 100,
\* actual_direction is bullish iff that value is > 0.5, bearish iff it is
\* < -0.5 and neutral otherwise (exactly +0.5 and -0.5 are neutral), and
\* was_correct is true iff predicted_direction equals actual_direction
C23_DirectionThresholds ==
    \A i \in DOMAIN prediction_logs :
        LET entry == prediction_logs[i]
            cur == entry.current_price[1]
            actual == entry.actual_price[1]
            change == entry.actual_change_percent[1]
        IN (Evaluated(entry) /\ Truthy(entry.current_price)) =>
              /\ entry.actual_change_percent # None
              /\ change[1] * cur = (actual - cur) * 100 * change[2]
              /\ entry.actual_direction # None
              /\ entry.actual_direction[1] = "bullish" <=> 200 * (actual - cur) > cur
              /\ entry.actual_direction[1] = "bearish" <=> 200 * (actual - cur) < 0 - cur
              /\ entry.actual_direction[1] = "neutral" <=>
                    (200 * (actual - cur) <= cur /\ 200 * (actual - cur) >= 0 - cur)
              /\ entry.was_correct =
                    Some(entry.predicted_direction = entry.actual_direction[1])

\* an entry with a neutral forecast evaluated at exactly +0.5 per cent
\* (200 to 201): neutral, and the forecast counted as right
C23_Witness ==
    /\ last.op = "evaluate"
    /\ \E i \in DOMAIN prediction_logs :
          LET entry == prediction_logs[i]
          IN /\ entry.current_price = Some(200)
             /\ entry.actual_price = Some(201)
             /\ entry.evaluated_at = Some(clock)
             /\ entry.predicted_direction = "neutral"
             /\ entry.actual_direction = Some("neutral")
             /\ entry.was_correct = Some(TRUE)

\* the score of the entry is max(0, 1 - (|predicted - actual| / actual * 100) / 10),
\* it lies in [0, 1], and it is 0 when the error is 10% of the actual price
\* or more
ScoreAsStated(entry) ==
    LET predicted == entry.predicted_price[1]
        actual == entry.actual_price[1]
        score == entry.accuracy_score[1]
        room == actual - 10 * Abs(predicted - actual)
    IN /\ entry.accuracy_score # None
       /\ entry.predicted_price # None
       /\ score[2] > 0
       /\ score[1] * actual = (IF room > 0 THEN room ELSE 0) * score[2]
       /\ 0 <= score[1] /\ score[1] <= score[2]
       /\ (10 * Abs(predicted - actual) >= actual) => score[1] = 0

\* C24: for every evaluated entry with a positive actual price,
\* accuracy_score = max(0, 1 - (|predicted_price - actual| / actual * 100) / 10):
\* it lies in [0, 1] and is 0 whenever the price error is 10% of the actual
\* price or more (current 100, predicted 105, actual 103: 83/103, about 0.806)
C24_ScoreEveryEvaluated ==
    \A i \in DOMAIN prediction_logs :
        LET entry == prediction_logs[i]
        IN (Evaluated(entry) /\ entry.actual_price[1] > 0) => ScoreAsStated(entry)

\* C24 as the code has it: the same for every evaluated entry with a positive
\* actual price whose current_price and predicted_price are both set and
\* nonzero; every other evaluated entry has no accuracy_score
C24_ScoreWherePriced ==
    \A i \in DOMAIN prediction_logs :
        LET entry == prediction_logs[i]
        IN (Evaluated(entry) /\ entry.actual_price[1] > 0) =>
              IF Truthy(entry.current_price) /\ Truthy(entry.predicted_price)
              THEN /\ ScoreAsStated(entry)
                   /\ (/\ entry.current_price = Some(100)
                       /\ entry.predicted_price = Some(105)
                       /\ entry.actual_price = Some(103)) =>
                         entry.accuracy_score = Some(<<83, 103>>)
              ELSE entry.accuracy_score = None

\* an entry predicted at 220 has just been evaluated at 200, an error of
\* exactly ten per cent: its score is 0
C24_Witness ==
    /\ last.op = "evaluate"
    /\ \E i \in DOMAIN prediction_logs :
          LET entry == prediction_logs[i]
          IN /\ entry.evaluated_at = Some(clock)
             /\ entry.predicted_price = Some(220)
             /\ entry.actual_price = Some(200)
             /\ entry.accuracy_score # None
             /\ entry.accuracy_score[1][1] = 0

\* the snapshots of an index
SnapshotsOf(index_id) ==
    { i \in DOMAIN sentiment_history :
        sentiment_history[i].index_id = Upper(index_id) }

\* C25: get_cached_sentiment returns the snapshot with the greatest
\* analyzed_at of the index if and only if now < analyzed_at + 30 minutes,
\* and nothing when the index has no snapshot or its latest one is stale;
\* save_sentiment_history only appends: earlier snapshots stay as they were
C25_LatestFreshSnapshot ==
    /\ [](last.op = "get_sentiment" =>
            LET mine == SnapshotsOf(last.index_id)
                top == MaxOf({ sentiment_history[i].analyzed_at : i \in mine })
            IN IF mine = {} \/ ~(last.now < top + 30) THEN last.result = None
               ELSE /\ last.result # None
                    /\ \E i \in mine :
                          /\ sentiment_history[i].analyzed_at = top
                          /\ last.result[1].score = sentiment_history[i].sentiment_score
                          /\ last.result[1].label = sentiment_history[i].overall_sentiment
                          /\ last.result[1].cached_at = IsoFormat(top))
    /\ [][\/ sentiment_history' = sentiment_history
          \/ /\ Len(sentiment_history') = Len(sentiment_history) + 1
             /\ SubSeq(sentiment_history', 1, Len(sentiment_history)) = sentiment_history]_vars

\* a read that returns the newer of two snapshots of the index, the older
\* one of the other label still there
C25_Witness ==
    /\ last.op = "get_sentiment"
    /\ last.result # None
    /\ \E i, j \in SnapshotsOf(last.index_id) :
          /\ i < j
          /\ sentiment_history[i].analyzed_at < sentiment_history[j].analyzed_at
          /\ sentiment_history[i].overall_sentiment # sentiment_history[j].overall_sentiment
          /\ last.result[1].label = sentiment_history[j].overall_sentiment

\* C26: in the forecast the combined signal is multiplied by 0.7 exactly when
\* rsi > 70 or rsi < 30, whatever the sign of the signal, and is left as it is
\* when 30 <= rsi <= 70; for the 20 closes 100, 101, ..., 119 the rsi is 100
\* and the combined signal is 0.7 times the undampened value
C26_RsiDampening ==
    last.op = "signal" =>
        LET rsi == last.technicals.rsi
            u == last.signal.undampened
            c == last.signal.combined_signal
            tenths == Reduce(<<10 * c[1], 7 * c[2]>>)
        IN /\ (rsi > 7000 \/ rsi < 3000) => tenths = Reduce(u)
           /\ (3000 <= rsi /\ rsi <= 7000) => Reduce(c) = Reduce(u)
           /\ last.closes = [i \in 1..20 |-> 99 + i] =>
                 (rsi = 10000 /\ tenths = Reduce(u))

\* a falling history (rsi 0) with bad news: a negative signal, dampened
C26_Witness ==
    /\ last.op = "signal"
    /\ last.technicals.rsi < 3000
    /\ last.signal.undampened[1] < 0
    /\ Reduce(<<10 * last.signal.combined_signal[1],
                7 * last.signal.combined_signal[2]>>) = Reduce(last.signal.undampened)

\* C29: the rsi of non-negative closes lies in [0, 100]; it is exactly 50 when
\* fewer than period + 1 closes are given and exactly 100 when the average
\* loss over the trailing window is 0
C29_RsiRange ==
    /\ last.op = "rsi" =>
          /\ 0 <= last.rsi[1] /\ last.rsi[2] > 0 /\ last.rsi[1] <= 100 * last.rsi[2]
          /\ Len(last.closes) < last.period + 1 => last.rsi = <<50, 1>>
          /\ (/\ Len(last.closes) >= last.period + 1
              /\ \A i \in 1..last.period :
                    LastDeltas(last.closes, last.period)[i] >= 0)
                => last.rsi = <<100, 1>>
    /\ last.op = "signal" =>
          (0 <= last.technicals.rsi /\ last.technicals.rsi <= 10000)

\* three closes with a gain and a larger loss in the window: an rsi strictly
\* between 0 and 50
C29_Witness ==
    /\ last.op = "rsi"
    /\ last.closes = <<0, 1, 0>> \/ last.closes = <<1, 2, 0>>
    /\ last.period = 2
    /\ 0 < last.rsi[1]
    /\ 2 * last.rsi[1] <= 100 * last.rsi[2]

\* C27: for every horizon and every day i of it the per-day confidence is
\* max(0.3, 0.85 - 0.07 * i): it never increases with i, never falls below
\* 0.3, and for a 7-day horizon it is strictly decreasing with the values
\* 0.78, 0.71, 0.64, 0.57, 0.50, 0.43, 0.36
C27_ConfidenceDecay ==
    last.op = "forecast" =>
        LET conf == [i \in 1..last.days |-> last.predictions[i].confidence[1]]
        IN /\ Len(last.predictions) = last.days
           /\ \A i \in 1..last.days :
                 /\ conf[i] = (IF 85 - 7 * i > 30 THEN 85 - 7 * i ELSE 30)
                 /\ conf[i] >= 30
                 /\ i > 1 => conf[i] <= conf[i - 1]
           /\ last.days = 7 => conf = <<78, 71, 64, 57, 50, 43, 36>>

\* a horizon long enough for the floor: day 8 and day 9 both at 0.3
C27_Witness ==
    /\ last.op = "forecast"
    /\ last.days = 9
    /\ last.predictions[7].confidence = Some(36)
    /\ last.predictions[8].confidence = Some(30)
    /\ last.predictions[9].confidence = Some(30)

\* C28: with combined_signal = 0 and zero noise every per-day predicted price
\* equals current_price, for every horizon length
C28_FlatForecast ==
    (/\ last.op = "forecast"
     /\ last.combined_signal[1] = 0
     /\ \A i \in 1..last.days : last.noise[i][1] = 0) =>
        \A i \in 1..last.days :
            last.predictions[i].predicted_close[1] * last.current_price[2]
                = 100 * last.current_price[1]

\* a 7-day forecast without signal or noise from 100.25
C28_Witness ==
    /\ last.op = "forecast"
    /\ last.days = 7
    /\ last.combined_signal[1] = 0
    /\ \A i \in 1..7 : last.noise[i][1] = 0
    /\ \A i \in 1..7 : last.predictions[i].predicted_close = Some(10025)

\* the rows of the table stored under another key than (index_id, period,
\* interval), in table order
RowsElsewhere(table, index_id, period, interval) ==
    SelectSeq(table, LAMBDA r : <<r.index_id, r.period, r.interval>>
                                    # <<Upper(index_id), period, interval>>)

\* C30: write_series for one key never deletes or changes the points stored
\* under a different (index_id, period, interval) key and leaves the sentiment
\* snapshots and the ledger entries unchanged: pruning is confined to the key
\* being written
C30_WriteFrame ==
    [][(writes' = writes + 1) =>
          LET w == last'
          IN /\ w.op = "write"
             /\ RowsElsewhere(cached_index_data', w.index_id, w.period, w.interval)
                  = RowsElsewhere(cached_index_data, w.index_id, w.period, w.interval)
             /\ prediction_logs' = prediction_logs
             /\ sentiment_history' = sentiment_history]_vars

\* a write that pruned a generation of its key while the three other keys,
\* the ledger and the sentiment table all held rows
C30_Witness ==
    /\ last.op = "write"
    /\ last.evicted # {}
    /\ last.index_id = FrameKey[1] /\ last.interval = FrameKey[3]
    /\ \A i \in 1..3 :
          Generations(cached_index_data, FrameNeighbours[i][1], FrameNeighbours[i][2],
                      FrameNeighbours[i][3]) # {}
    /\ prediction_logs # <<>>
    /\ sentiment_history # <<>>

----------------------------------------------------------------------------
(* What the calls leave alone, and the letter case of the ids *)

\* the columns log_prediction fills
PredictionColumns ==
    {"index_id", "prediction_date", "target_date", "prediction_days", "current_price",
     "predicted_price", "predicted_direction", "confidence"}

\* C31: evaluate(index_id, ...) never creates or deletes entries, never
\* changes an entry of another index and never changes an entry's
\* prediction-time fields; it only sets outcome fields of entries of index_id
\* that were Pending
C31_EvaluateFrame ==
    [][(last'.op = "evaluate") =>
          LET old == prediction_logs
              new == prediction_logs'
          IN /\ Len(new) = Len(old)
             /\ \A i \in 1..Len(old) :
                   /\ \A c \in PredictionColumns : new[i][c] = old[i][c]
                   /\ new[i] # old[i] =>
                         /\ old[i].index_id = Upper(last'.index_id)
                         /\ old[i].actual_price = None
                         /\ old[i].target_date <= clock]_vars

\* an evaluation of sp500 has stamped its entry; the entry of DOW, due on the
\* same day, is still pending
C31_Witness ==
    /\ last.op = "evaluate"
    /\ last.index_id = "sp500"
    /\ Len(prediction_logs) = 2
    /\ \E i, j \in 1..2 :
          /\ prediction_logs[i].index_id = "SP500"
          /\ prediction_logs[i].evaluated_at = Some(clock)
          /\ prediction_logs[j].index_id = "DOW"
          /\ prediction_logs[j].actual_price = None
          /\ prediction_logs[j].target_date <= clock

\* C32: for every entry written by log, predicted_direction agrees with the
\* entry's own predicted price: a bullish entry has predicted_price >=
\* current_price and a bearish entry has predicted_price <= current_price, for
\* every day of the horizon and every noise draw
C32_DirectionAgrees ==
    \A i \in 1..Len(prediction_logs) :
        LET e == prediction_logs[i]
        IN /\ e.predicted_direction = "bullish" =>
                 e.predicted_price[1] >= e.current_price[1]
           /\ e.predicted_direction = "bearish" =>
                 e.predicted_price[1] <= e.current_price[1]

\* a bullish entry below the current price: signal 0.5, day one, a draw of
\* -0.006 against a daily change of 0.45 per cent
C32_BullishBelow ==
    /\ last.op = "log"
    /\ last.combined_signal = <<1, 2>>
    /\ \E i \in 1..Len(prediction_logs) :
          /\ prediction_logs[i].predicted_direction = "bullish"
          /\ prediction_logs[i].current_price = Some(10025)
          /\ prediction_logs[i].predicted_price = Some(10010)

\* C33: the store operations treat index_id case-insensitively: series,
\* sentiment snapshots and ledger entries written under any letter case of an
\* id are found by read_series, read_sentiment, evaluate and accuracy_stats
\* called with any other letter case of it, and every stored row carries the
\* upper-cased id
C33_CaseInsensitive ==
    /\ \A i \in DOMAIN cached_index_data : cached_index_data[i].index_id = "SP500"
    /\ \A i \in DOMAIN sentiment_history : sentiment_history[i].index_id = "SP500"
    /\ \A i \in DOMAIN prediction_logs : prediction_logs[i].index_id = "SP500"
    /\ \A a \in CaseIds :
          /\ GetCachedIndexData(cached_index_data, a, "1mo", "1d", clock)
               = GetCachedIndexData(cached_index_data, "SP500", "1mo", "1d", clock)
          /\ (last.op = "write" /\ last.now = clock) =>
                GetCachedIndexData(cached_index_data, a, "1mo", "1d", clock) # None
          /\ get_cached_sentiment(sentiment_history, a, clock)
               = get_cached_sentiment(sentiment_history, "SP500", clock)
          /\ (last.op = "save_sentiment" /\ last.now = clock) =>
                None \notin get_cached_sentiment(sentiment_history, a, clock)
          /\ \A actual_prices \in RacePriceMaps :
                LET after == EvaluatePastPredictions(prediction_logs, a, actual_prices,
                                                     clock, TRUE)
                IN /\ after = EvaluatePastPredictions(prediction_logs, "SP500",
                                                      actual_prices, clock, TRUE)
                   /\ \A i \in DOMAIN prediction_logs :
                         prediction_logs[i].target_date <= clock =>
                             after[i].actual_price # None
          /\ get_prediction_accuracy(prediction_logs, a)
               = get_prediction_accuracy(prediction_logs, "SP500")
          /\ (\E i \in DOMAIN prediction_logs : prediction_logs[i].was_correct # None)
                => get_prediction_accuracy(prediction_logs, a) # NoData

\* the three tables hold rows and an evaluation called with "Sp500" has
\* stamped the entry
C33_Witness ==
    /\ last.op = "evaluate"
    /\ last.index_id = "Sp500"
    /\ cached_index_data # <<>>
    /\ sentiment_history # <<>>
    /\ \E i \in DOMAIN prediction_logs :
          /\ prediction_logs[i].evaluated_at = Some(clock)
          /\ prediction_logs[i].was_correct # None

\* C34: fetch_news serves a cached article list for a (query, page_size) key
\* only while the entry is younger than 300 seconds; only successful upstream
\* responses are stored in the cache, and a failed or keyless fetch returns
\* the mock fallback without storing it and without changing any existing
\* cache entry
C34_NewsCache ==
    [][LET w == last'
           key == <<w.query, w.page_size>>
           keyless == NEWS_API_KEY \in {"", "your_newsapi_key_here"}
           cached == key \in DOMAIN _news_cache
           young == cached /\ 60 * clock - _news_cache[key].timestamp < 300
       IN /\ (_news_cache' # _news_cache) => (w.op = "news" /\ w # last)
          /\ (w.op = "news" /\ w # last) =>
                /\ clock' = clock /\ w.now = clock
                /\ (w.source = "cache") = young
                /\ w.source = "cache" => /\ w.articles = _news_cache[key].articles
                                         /\ _news_cache' = _news_cache
                /\ w.source = "upstream" =>
                      /\ ~keyless /\ ~w.upstream.raises /\ w.upstream.status = 200
                      /\ w.articles = w.upstream.articles
                      /\ DOMAIN _news_cache' = DOMAIN _news_cache \cup {key}
                      /\ _news_cache'[key] = [articles |-> w.upstream.articles,
                                              timestamp |-> 60 * clock]
                      /\ \A k \in DOMAIN _news_cache \ {key} :
                            _news_cache'[k] = _news_cache[k]
                /\ (~young /\ (keyless \/ w.upstream.raises
                                       \/ w.upstream.status # 200)) =>
                      /\ w.source = "mock"
                      /\ w.articles = MockNews(w.query, clock)
                      /\ _news_cache' = _news_cache
                /\ \A k \in DOMAIN _news_cache' :
                      \A i \in DOMAIN _news_cache'[k].articles :
                          _news_cache'[k].articles[i].url # "https://example.com/news/0"
                /\ w.source \in {"cache", "upstream", "mock"}]_vars

\* a failed fetch over an entry that has just turned 300 seconds old: the
\* fallback is returned and the old entry is still in the cache
C34_Witness ==
    /\ last.op = "news"
    /\ last.source = "mock"
    /\ last.upstream.status = 429
    /\ NEWS_API_KEY = "k3y"
    /\ <<last.query, last.page_size>> \in DOMAIN _news_cache
    /\ last.now * 60 - _news_cache[<<last.query, last.page_size>>].timestamp = 300
    /\ Cardinality(DOMAIN _news_cache) = 3

====
